---- MODULE Spec2Model ----
(***************************************************************************)
(* Model of the Windows Prefetch analyzer of dotty                         *)
(* (src/analyzers/prefetch_analyzer.py): MAM container decoding, the       *)
(* LZNT1 engine, the four version parsers, the FILETIME converter and the  *)
(* timeline / program aggregation driven by PrefetchAnalyzer.analyze(),    *)
(* and of the ProgressTracker it reports to (src/core/progress_manager.py).*)
(*                                                                         *)
(* Conventions.  Python offsets are 0-based, sequences here are 1-based:   *)
(* data[o] is data[o + 1].  None is the empty tuple; an optional value is  *)
(* a tuple of length 0 or 1.  Unsigned 32 and 64 bit integers are kept     *)
(* at full width as big-endian tuples of 16-bit limbs (2 and 4 limbs), so  *)
(* that no value is cut to the width of TLC's integers.  A                 *)
(* datetime is the whole number of microseconds since 1601-01-01T00:00:00  *)
(* as a 4-limb tuple.                                                      *)
(***************************************************************************)
EXTENDS Integers, Sequences, FiniteSets, TLC

None == <<>>

Min2(a, b) == IF a < b THEN a ELSE b

RECURSIVE Pow2(_)
Pow2(n) == IF n = 0 THEN 1 ELSE 2 * Pow2(n - 1)

(***************************************************************************)
(* Multi-limb unsigned arithmetic (base 65536, most significant first).    *)
(***************************************************************************)
LimbBase == 256 * 256

RECURSIVE ZeroLimbs(_)
ZeroLimbs(n) == IF n = 0 THEN <<>> ELSE <<0>> \o ZeroLimbs(n - 1)

\* a < b for tuples of the same length
RECURSIVE LimbLessFrom(_, _, _)
LimbLessFrom(a, b, i) ==
    IF i > Len(a) THEN FALSE
    ELSE IF a[i] # b[i] THEN a[i] < b[i]
    ELSE LimbLessFrom(a, b, i + 1)

LimbLess(a, b) == LimbLessFrom(a, b, 1)

LimbLeq(a, b) == ~LimbLess(b, a)

\* limbs i..Len(a) of a * c and the carry out of them
RECURSIVE MulSmallFrom(_, _, _)
MulSmallFrom(a, c, i) ==
    IF i > Len(a) THEN [l |-> <<>>, c |-> 0]
    ELSE LET rest == MulSmallFrom(a, c, i + 1)
             cur  == a[i] * c + rest.c
         IN  [l |-> <<cur % LimbBase>> \o rest.l, c |-> cur \div LimbBase]

\* a * c for a small factor c, cut to the width of a
MulSmall(a, c) == MulSmallFrom(a, c, 1).l

\* long division of limbs i..Len(a) by a small divisor d, rem carried in
RECURSIVE DivSmallFrom(_, _, _, _)
DivSmallFrom(a, d, i, rem) ==
    IF i > Len(a) THEN [q |-> <<>>, r |-> rem]
    ELSE LET cur  == rem * LimbBase + a[i]
             rest == DivSmallFrom(a, d, i + 1, cur % d)
         IN  [q |-> <<cur \div d>> \o rest.q, r |-> rest.r]

\* quotient and remainder of a by a small divisor d
DivSmall(a, d) == DivSmallFrom(a, d, 1, 0)

\* limbs i..Len(a) of a + c and the carry out of them
RECURSIVE AddSmallFrom(_, _, _)
AddSmallFrom(a, c, i) ==
    IF i > Len(a) THEN [l |-> <<>>, c |-> c]
    ELSE LET rest == AddSmallFrom(a, c, i + 1)
             cur  == a[i] + rest.c
         IN  [l |-> <<cur % LimbBase>> \o rest.l, c |-> cur \div LimbBase]

\* a + c for a small addend c, cut to the width of a
AddSmall(a, c) == AddSmallFrom(a, c, 1).l

LimbOdd(a) == a[Len(a)] % 2 = 1

\* a quotient and remainder by d rounded to the nearest whole number, ties
\* to the even one
RoundQuotient(qr, d) ==
    IF 2 * qr.r > d \/ (2 * qr.r = d /\ LimbOdd(qr.q))
    THEN AddSmall(qr.q, 1)
    ELSE qr.q

RoundHalfEvenDiv(a, d) == RoundQuotient(DivSmall(a, d), d)

\* a natural number below 2^31 as an unsigned 32-bit value
ToU32(n) == <<n \div LimbBase, n % LimbBase>>

(***************************************************************************)
(* struct.unpack and slicing                                               *)
(***************************************************************************)
\* data[a:b]: Python slices clamp to the length and never raise
Slice(data, a, b) == SubSeq(data, a + 1, Min2(b, Len(data)))

\* struct.unpack('<H', data[o:o+2])[0]; callers guard the length
UnpackH(data, o) == data[o + 1] + 256 * data[o + 2]

\* struct.unpack('<I', data[o:o+4])[0]: None stands for struct.error (short slice)
UnpackI(data, o) ==
    IF o + 4 > Len(data) THEN None
    ELSE << <<data[o + 3] + 256 * data[o + 4], data[o + 1] + 256 * data[o + 2]>> >>

\* struct.unpack('<Q', data[o:o+8])[0]: None stands for struct.error (short slice)
UnpackQ(data, o) ==
    IF o + 8 > Len(data) THEN None
    ELSE << <<data[o + 7] + 256 * data[o + 8], data[o + 5] + 256 * data[o + 6],
              data[o + 3] + 256 * data[o + 4], data[o + 1] + 256 * data[o + 2]>> >>

(***************************************************************************)
(* _filetime_to_datetime                                                   *)
(***************************************************************************)
\* datetime.max - datetime(1601,1,1) + 1 microsecond = 265046774400000000:
\* the first microsecond count that epoch + delta cannot represent
DatetimeLimit == <<941, 41635, 5369, 40960>>

\* the smallest e in 0..8 with F < 10 * 2^(53+e), for F >= 10 * 2^52
RECURSIVE FloatExpUp(_, _)
FloatExpUp(F, e) ==
    IF e = 8 \/ F[1] < 320 * Pow2(e) THEN e ELSE FloatExpUp(F, e + 1)

\* F * 2^k, cut to the width of F
RECURSIVE ShiftLeft(_, _)
ShiftLeft(F, k) ==
    IF k >= 8 THEN ShiftLeft(MulSmall(F, 256), k - 8) ELSE MulSmall(F, Pow2(k))

\* F \div 2^k
RECURSIVE ShiftRight(_, _)
ShiftRight(F, k) ==
    IF k >= 8 THEN ShiftRight(DivSmall(F, 256).q, k - 8) ELSE DivSmall(F, Pow2(k)).q

\* the smallest k with F * 2^k >= 10 * 2^52, for 0 < F < 10 * 2^52
FloatExpDown(F) ==
    CHOOSE k \in 1..56 : /\ ShiftLeft(F, k)[1] >= 160
                         /\ ShiftLeft(F, k - 1)[1] < 160

\* top = v \div 2^(k-1) halved, rounded half to even: its last bit is the
\* guard bit, the bits of v below it are sticky
RoundTop(v, k, top) ==
    IF LimbOdd(top) /\ (ShiftLeft(top, k - 1) # v \/ LimbOdd(DivSmall(top, 2).q))
    THEN AddSmall(DivSmall(top, 2).q, 1)
    ELSE DivSmall(top, 2).q

\* v / 2^k rounded to the nearest whole number, ties to the even one (k >= 1)
HalveRound(v, k) == RoundTop(v, k, ShiftRight(v, k - 1))

\* filetime / 10 as a double, for a quotient of at least 2^52: a whole number
FloatUp(F, e) == MulSmall(RoundHalfEvenDiv(F, 10 * Pow2(e)), Pow2(e))

\* filetime / 10 as a double, for a quotient below 2^52, rounded by
\* timedelta to whole microseconds, half to even
FloatDown(F, k) == HalveRound(RoundHalfEvenDiv(ShiftLeft(F, k), 10), k)

\* timedelta(microseconds=filetime / 10) in whole microseconds: the true
\* division yields the double nearest to filetime/10 (53-bit significand,
\* ties to even), and timedelta rounds that double half to even
FloatMicroseconds(F) ==
    IF F[1] >= 160 THEN FloatUp(F, FloatExpUp(F, 0)) ELSE FloatDown(F, FloatExpDown(F))

\* epoch + delta raises OverflowError past datetime.max, which the bare
\* except (line 533) turns into None
AddToEpoch(us) == IF LimbLess(us, DatetimeLimit) THEN us ELSE None

\* the conversion without its zero test: zero gives the epoch itself
EpochForZero(filetime) ==
    IF filetime = ZeroLimbs(4) THEN ZeroLimbs(4)
    ELSE AddToEpoch(FloatMicroseconds(filetime))

\* if not filetime or filetime == 0: return None
FiletimeToDatetime(filetime) ==
    IF filetime = ZeroLimbs(4) THEN None ELSE AddToEpoch(FloatMicroseconds(filetime))

(***************************************************************************)
(* _lznt1_decompress                                                       *)
(***************************************************************************)
RECURSIVE Zeros(_)
Zeros(n) ==
    IF n <= 0 THEN <<>>
    ELSE IF n = 1 THEN <<0>>
    ELSE Zeros(n \div 2) \o Zeros(n - n \div 2)

\* len(output) < uncompressed_size, the size being an unsigned 32-bit value
SizeLess(n, size) == LimbLess(ToU32(n), size)

\* MaxBits with "<=" for "<" at every threshold
MaxBitsInclusive(output_size) ==
    IF output_size <= 16 THEN 4
    ELSE IF output_size <= 32 THEN 5
    ELSE IF output_size <= 4096 THEN 6
    ELSE 12

\* max_bits chosen from the current output length (lines 327-336)
MaxBits(output_size) ==
    IF output_size < 16 THEN 4
    ELSE IF output_size < 32 THEN 5
    ELSE IF output_size < 4096 THEN 6
    ELSE 12

LengthBits(output_size) == 16 - MaxBits(output_size)

\* (token & length_mask) + 3
MatchLength(token, output_size) == (token % Pow2(LengthBits(output_size))) + 3

\* (token >> length_bits) + 1
MatchDistance(token, output_size) == (token \div Pow2(LengthBits(output_size))) + 1

\* one pass of the body of "for _ in range(match_length)" (lines 351-356)
CopyByte(w) ==
    IF w.start_pos < Len(w.output)
    THEN [output |-> Append(w.output, w.output[w.start_pos + 1]),
          start_pos |-> w.start_pos + 1]
    ELSE [output |-> Append(w.output, 0), start_pos |-> w.start_pos]

\* n passes of CopyByte, one after the other
RECURSIVE CopyLoop(_, _)
CopyLoop(w, n) ==
    IF w.start_pos < 0 \/ n <= 0 THEN w
    ELSE IF n = 1 THEN CopyByte(w)
    ELSE CopyLoop(CopyLoop(w, n \div 2), n - n \div 2)

\* CopyFromWindow that skips a back-reference beyond the start of the output
CopyNoPad(output, match_distance, match_length) ==
    IF match_distance > Len(output)
    THEN output
    ELSE CopyLoop([output |-> output, start_pos |-> Len(output) - match_distance],
                  match_length).output

\* CopyFromWindow as one slice copy: output.extend(output[start:start + length])
CopyBulk(output, match_distance, match_length) ==
    IF match_distance > Len(output)
    THEN output \o Zeros(match_length)
    ELSE output \o Slice(output, Len(output) - match_distance,
                         Len(output) - match_distance + match_length)

\* "Copy from window" (lines 344-356)
CopyFromWindow(output, match_distance, match_length) ==
    IF match_distance > Len(output)
    THEN output \o Zeros(match_length)
    ELSE CopyLoop([output |-> output, start_pos |-> Len(output) - match_distance],
                  match_length).output

\* "for bit in range(8)" from the given bit on (lines 311-363)
RECURSIVE TokenLoop(_, _, _, _, _, _, _)
TokenLoop(data, size, chunk_end, flag_byte, bit, pos, output) ==
    IF bit >= 8 THEN [pos |-> pos, output |-> output]
    ELSE IF ~SizeLess(Len(output), size) THEN [pos |-> pos, output |-> output]
    ELSE IF pos >= chunk_end THEN [pos |-> pos, output |-> output]
    ELSE IF (flag_byte \div Pow2(bit)) % 2 = 1
    THEN IF pos + 2 > Len(data) THEN [pos |-> pos, output |-> output]
         ELSE LET token == UnpackH(data, pos)
                  n     == Len(output)
                  out2  == CopyFromWindow(output, MatchDistance(token, n),
                                          MatchLength(token, n))
              IN  TokenLoop(data, size, chunk_end, flag_byte, bit + 1, pos + 2, out2)
    ELSE IF pos >= Len(data) THEN [pos |-> pos, output |-> output]
         ELSE TokenLoop(data, size, chunk_end, flag_byte, bit + 1, pos + 1,
                        Append(output, data[pos + 1]))

Lznt1Start == [mode |-> "outer", pos |-> 0, output |-> <<>>, chunk_end |-> 0]

\* OuterStep without the test "chunk_header == 0" of line 288
OuterStepNoStop(data, size, st) ==
    IF ~(st.pos < Len(data) /\ SizeLess(Len(st.output), size))
    THEN [st EXCEPT !.mode = "done"]
    ELSE IF st.pos + 2 > Len(data) THEN [st EXCEPT !.mode = "done"]
    ELSE LET chunk_header == UnpackH(data, st.pos)
             pos          == st.pos + 2
             chunk_size    == (chunk_header % 4096) + 1
             is_compressed == (chunk_header \div 32768) % 2 = 1
             chunk_end     == pos + chunk_size
         IN  IF ~is_compressed
             THEN [mode |-> "outer", pos |-> chunk_end,
                   output |-> st.output \o Slice(data, pos, chunk_end),
                   chunk_end |-> chunk_end]
             ELSE [mode |-> "inner", pos |-> pos, output |-> st.output,
                   chunk_end |-> chunk_end]

\* one pass of the outer "while" (lines 279-299), up to the entry of a
\* compressed chunk
OuterStep(data, size, st) ==
    IF ~(st.pos < Len(data) /\ SizeLess(Len(st.output), size))
    THEN [st EXCEPT !.mode = "done"]
    ELSE IF st.pos + 2 > Len(data) THEN [st EXCEPT !.mode = "done"]
    ELSE LET chunk_header == UnpackH(data, st.pos)
             pos          == st.pos + 2
         IN  IF chunk_header = 0 THEN [st EXCEPT !.mode = "done", !.pos = pos]
             ELSE LET chunk_size    == (chunk_header % 4096) + 1
                      is_compressed == (chunk_header \div 32768) % 2 = 1
                      chunk_end     == pos + chunk_size
                  IN  IF ~is_compressed
                      THEN [mode |-> "outer", pos |-> chunk_end,
                            output |-> st.output \o Slice(data, pos, chunk_end),
                            chunk_end |-> chunk_end]
                      ELSE [mode |-> "inner", pos |-> pos, output |-> st.output,
                            chunk_end |-> chunk_end]

\* one pass of the inner "while" (lines 302-363): a flag byte and its tokens
InnerStep(data, size, st) ==
    IF ~(st.pos < st.chunk_end /\ SizeLess(Len(st.output), size))
    THEN [st EXCEPT !.mode = "outer"]
    ELSE IF st.pos >= Len(data) THEN [st EXCEPT !.mode = "outer"]
    ELSE [mode |-> "inner", chunk_end |-> st.chunk_end] @@
         TokenLoop(data, size, st.chunk_end, data[st.pos + 1], 0, st.pos + 1, st.output)

Lznt1Step(data, size, st) ==
    IF st.mode = "outer" THEN OuterStep(data, size, st)
    ELSE IF st.mode = "inner" THEN InnerStep(data, size, st)
    ELSE st

\* the loops run to their end: at most fuel steps, taken one after the other
RECURSIVE Lznt1Run(_, _, _, _)
Lznt1Run(data, size, st, fuel) ==
    IF st.mode = "done" \/ fuel <= 0 THEN st
    ELSE IF fuel = 1 THEN Lznt1Step(data, size, st)
    ELSE Lznt1Run(data, size, Lznt1Run(data, size, st, fuel \div 2),
                  fuel - fuel \div 2)

\* every pass reads a chunk header or a flag byte, or leaves its loop
Lznt1Fuel(data) == 2 * Len(data) + 3

\* TakeSize without the slice: bytes(output)
TakeAll(output, size) == output

\* bytes(output[:uncompressed_size])
TakeSize(output, size) ==
    IF SizeLess(Len(output), size) THEN output
    ELSE SubSeq(output, 1, size[1] * LimbBase + size[2])

\* The same loops one pass at a time, for the properties of a single pass.
\* The state adds the flag byte and the bit index of the "for" loop and a
\* history of the tokens decoded: the output length n at that moment, the
\* token and the match_length and match_distance computed from it.
EngineStart ==
    [mode |-> "outer", pos |-> 0, output |-> <<>>, chunk_end |-> 0,
     flag_byte |-> 0, bit |-> 0, tokens |-> <<>>]

\* one pass of the outer "while" (lines 279-299)
OuterPass(data, size, st) == OuterStep(data, size, st) @@ st

\* FlagPass without "pos += 1" after the flag byte is read
FlagPassNoAdvance(data, size, st) ==
    IF ~(st.pos < st.chunk_end /\ SizeLess(Len(st.output), size))
    THEN [st EXCEPT !.mode = "outer"]
    ELSE IF st.pos >= Len(data) THEN [st EXCEPT !.mode = "outer"]
    ELSE [st EXCEPT !.mode = "tokens", !.flag_byte = data[st.pos + 1], !.bit = 0]

\* the head of one pass of the inner "while" (lines 302-309): the loop test,
\* the break at the end of the data, the flag byte
FlagPass(data, size, st) ==
    IF ~(st.pos < st.chunk_end /\ SizeLess(Len(st.output), size))
    THEN [st EXCEPT !.mode = "outer"]
    ELSE IF st.pos >= Len(data) THEN [st EXCEPT !.mode = "outer"]
    ELSE [st EXCEPT !.mode = "tokens", !.flag_byte = data[st.pos + 1],
                    !.pos = st.pos + 1, !.bit = 0]

\* lines 318-356: a back-reference token at st.pos, n being len(output)
DecodeToken(st, token, n) ==
    [st EXCEPT !.pos    = st.pos + 2,
               !.bit    = st.bit + 1,
               !.output = CopyFromWindow(st.output, MatchDistance(token, n),
                                         MatchLength(token, n)),
               !.tokens = Append(st.tokens,
                                 [n |-> n, token |-> token,
                                  match_length |-> MatchLength(token, n),
                                  match_distance |-> MatchDistance(token, n)])]

\* one pass of "for bit in range(8)" (lines 311-363); the end of the "for",
\* by exhaustion or by break, returns to the inner "while"
TokenPass(data, size, st) ==
    IF st.bit >= 8 THEN [st EXCEPT !.mode = "inner"]
    ELSE IF ~SizeLess(Len(st.output), size) THEN [st EXCEPT !.mode = "inner"]
    ELSE IF st.pos >= st.chunk_end THEN [st EXCEPT !.mode = "inner"]
    ELSE IF (st.flag_byte \div Pow2(st.bit)) % 2 = 1
    THEN IF st.pos + 2 > Len(data) THEN [st EXCEPT !.mode = "inner"]
         ELSE DecodeToken(st, UnpackH(data, st.pos), Len(st.output))
    ELSE IF st.pos >= Len(data) THEN [st EXCEPT !.mode = "inner"]
         ELSE [st EXCEPT !.pos = st.pos + 1, !.bit = st.bit + 1,
                         !.output = Append(st.output, data[st.pos + 1])]

Lznt1Decompress(compressed_data, uncompressed_size) ==
    TakeSize(Lznt1Run(compressed_data, uncompressed_size, Lznt1Start,
                      Lznt1Fuel(compressed_data)).output,
             uncompressed_size)

(***************************************************************************)
(* _decompress_mam                                                         *)
(***************************************************************************)
MamSignature == <<77, 65, 77, 4>>

\* CheckSize without "len(decompressed) == uncompressed_size"
AcceptAnyLength(decompressed, uncompressed_size) ==
    IF decompressed # <<>> THEN <<decompressed>> ELSE None

\* lines 249-256: the output is returned only when it is not empty and has
\* the declared length
CheckSize(decompressed, uncompressed_size) ==
    IF decompressed # <<>> /\ ToU32(Len(decompressed)) = uncompressed_size
    THEN <<decompressed>>
    ELSE None

\* lines 241-247; None for the struct.error on a header shorter than 8 bytes
\* (caught at line 258)
DecompressPayload(compressed_data, uncompressed_size) ==
    IF uncompressed_size = None THEN None
    ELSE CheckSize(Lznt1Decompress(Slice(compressed_data, 8, Len(compressed_data)),
                                   uncompressed_size[1]),
                   uncompressed_size[1])

DecompressMam(compressed_data) ==
    IF Slice(compressed_data, 0, 4) # MamSignature THEN None
    ELSE DecompressPayload(compressed_data, UnpackI(compressed_data, 4))

(***************************************************************************)
(* The version parsers                                                     *)
(***************************************************************************)
PrefetchVersions ==
    [v \in {17, 23, 26, 30} |->
        IF v = 17 THEN "Windows XP/2003"
        ELSE IF v = 23 THEN "Windows Vista/7"
        ELSE IF v = 26 THEN "Windows 8.1"
        ELSE "Windows 10/11"]

\* the UTF-16 code units of a byte string; a trailing odd byte is dropped
\* (errors='ignore')
CodeUnit(bytes, i) == bytes[2 * i - 1] + 256 * bytes[2 * i]

IsHighSurrogate(u) == 55296 <= u /\ u <= 56319

IsLowSurrogate(u) == 56320 <= u /\ u <= 57343

\* what the code unit at index i adds to the decoded string: a surrogate
\* pair gives one code point, an unpaired surrogate is ignored
DecodedAt(bytes, i) ==
    LET n == Len(bytes) \div 2
        u == CodeUnit(bytes, i)
    IN  IF IsHighSurrogate(u)
        THEN IF i < n /\ IsLowSurrogate(CodeUnit(bytes, i + 1))
             THEN <<65536 + (u - 55296) * 1024 + (CodeUnit(bytes, i + 1) - 56320)>>
             ELSE <<>>
        ELSE IF IsLowSurrogate(u) THEN <<>>
        ELSE <<u>>

RECURSIVE DecodeRange(_, _, _)
DecodeRange(bytes, i, j) ==
    IF i > j THEN <<>>
    ELSE IF i = j THEN DecodedAt(bytes, i)
    ELSE LET mid == (i + j) \div 2
         IN  DecodeRange(bytes, i, mid) \o DecodeRange(bytes, mid + 1, j)

\* bytes.decode('utf-16-le', errors='ignore')
DecodeUtf16(bytes) == DecodeRange(bytes, 1, Len(bytes) \div 2)

\* str.rstrip('\x00')
RStripNul(str) ==
    LET keep == {i \in 1..Len(str) : str[i] # 0}
    IN  IF keep = {} THEN <<>>
        ELSE SubSeq(str, 1, CHOOSE i \in keep : \A j \in keep : j <= i)

\* data[0x10:0x10 + 60].decode('utf-16-le', errors='ignore').rstrip('\x00')
ExecName(data) == RStripNul(DecodeUtf16(Slice(data, 16, 76)))

HexDigits == <<"0", "1", "2", "3", "4", "5", "6", "7",
               "8", "9", "A", "B", "C", "D", "E", "F">>

HexDigit(n) == HexDigits[(n % 16) + 1]

Hex4(n) == <<HexDigit(n \div 4096), HexDigit(n \div 256), HexDigit(n \div 16), HexDigit(n)>>

\* f'{prefetch_hash:08X}'
Hex08X(u32) == Hex4(u32[1]) \o Hex4(u32[2])

PrefetchRecord(filename, version, exec_name, prefetch_hash, run_count, last_execution, execution_times) ==
    [filename        |-> filename,
     version         |-> version,
     version_name    |-> PrefetchVersions[version],
     executable_name |-> exec_name,
     prefetch_hash   |-> Hex08X(prefetch_hash),
     run_count       |-> run_count,
     last_execution  |-> last_execution,
     execution_times |-> execution_times,
     file_path       |-> <<"prefetch_path", filename>>]

\* the record of versions 17 and 23 (lines 392-402)
SingleRecord(filename, version, exec_name, prefetch_hash, run_count, last_exec_datetime) ==
    <<PrefetchRecord(filename, version, exec_name, prefetch_hash, run_count,
                     last_exec_datetime,
                     IF last_exec_datetime # None THEN <<last_exec_datetime>> ELSE <<>>)>>

\* any struct.error of the three reads is caught and gives None
SingleFields(data, filename, version, prefetch_hash, run_count, last_exec_time) ==
    IF prefetch_hash = None \/ run_count = None \/ last_exec_time = None
    THEN None
    ELSE SingleRecord(filename, version, ExecName(data), prefetch_hash[1],
                      run_count[1], FiletimeToDatetime(last_exec_time[1]))

\* versions 17 and 23: one FILETIME
ParseSingle(data, filename, version, run_count_offset, time_offset) ==
    SingleFields(data, filename, version, UnpackI(data, 76),
                 UnpackI(data, run_count_offset), UnpackQ(data, time_offset))

ParseVersion17(data, filename) == ParseSingle(data, filename, 17, 144, 120)

\* version 23 read at the offsets of version 17
ParseVersion23At17(data, filename) == ParseSingle(data, filename, 23, 144, 120)

ParseVersion23(data, filename) == ParseSingle(data, filename, 23, 152, 128)

\* "if exec_datetime: execution_times.append(exec_datetime)"
AppendIfSet(exec_datetime) ==
    IF exec_datetime # None THEN <<exec_datetime>> ELSE <<>>

\* "for i in range(8)" from slot i on (lines 454-462): a short read breaks
\* the loop, a None conversion is skipped
RECURSIVE ExecutionTimes(_, _)
ExecutionTimes(data, i) ==
    IF i >= 8 \/ UnpackQ(data, 128 + i * 8) = None THEN <<>>
    ELSE AppendIfSet(FiletimeToDatetime(UnpackQ(data, 128 + i * 8)[1]))
         \o ExecutionTimes(data, i + 1)

\* the record of versions 26 and 30 (lines 464-476)
MultiRecord(filename, version, exec_name, prefetch_hash, run_count, execution_times) ==
    <<PrefetchRecord(filename, version, exec_name, prefetch_hash, run_count,
                     IF execution_times # <<>> THEN execution_times[1] ELSE None,
                     execution_times)>>

MultiFields(data, filename, version, prefetch_hash, run_count) ==
    IF prefetch_hash = None \/ run_count = None THEN None
    ELSE MultiRecord(filename, version, ExecName(data), prefetch_hash[1],
                     run_count[1], ExecutionTimes(data, 0))

\* ParseMulti with a run count that cannot be read taken as zero
ParseMultiZeroCount(data, filename, version) ==
    MultiFields(data, filename, version, UnpackI(data, 76),
                IF UnpackI(data, 208) = None THEN <<<<0, 0>>>> ELSE UnpackI(data, 208))

\* versions 26 and 30: eight FILETIME slots
ParseMulti(data, filename, version) ==
    MultiFields(data, filename, version, UnpackI(data, 76), UnpackI(data, 208))

ParseVersion26(data, filename) == ParseMulti(data, filename, 26)

ParseVersion30(data, filename) == ParseMulti(data, filename, 30)

(***************************************************************************)
(* _parse_prefetch_file                                                    *)
(*                                                                         *)
(* A file is [readable, bytes]; open() of an unreadable file raises and    *)
(* the handler at line 215 returns None.  The result carries the record    *)
(* (or None) and the effects on the analyzer: compressed (compressed_count *)
(* += 1), failed (the name is appended to decompression_failed) and the    *)
(* number of calls of _decompress_mam made for the file.                   *)
(***************************************************************************)
ParseResult(rec, compressed, failed) ==
    [rec |-> rec, compressed |-> compressed, failed |-> failed,
     mam_calls |-> IF compressed THEN 1 ELSE 0]

\* Dispatch without the test of line 201: an unknown code is read as
\* version 30
DispatchDefault30(data, filename, version) ==
    IF version = <<0, 17>> THEN ParseVersion17(data, filename)
    ELSE IF version = <<0, 23>> THEN ParseVersion23(data, filename)
    ELSE IF version = <<0, 26>> THEN ParseVersion26(data, filename)
    ELSE ParseVersion30(data, filename)

\* Dispatch on the low 16 bits of the version field
DispatchLow16(data, filename, version) ==
    IF version[2] \notin DOMAIN PrefetchVersions THEN None
    ELSE IF version[2] = 17 THEN ParseVersion17(data, filename)
    ELSE IF version[2] = 23 THEN ParseVersion23(data, filename)
    ELSE IF version[2] = 26 THEN ParseVersion26(data, filename)
    ELSE ParseVersion30(data, filename)

\* lines 199-213
Dispatch(data, filename, version) ==
    IF ~(version[1] = 0 /\ version[2] \in DOMAIN PrefetchVersions) THEN None
    ELSE IF version[2] = 17 THEN ParseVersion17(data, filename)
    ELSE IF version[2] = 23 THEN ParseVersion23(data, filename)
    ELSE IF version[2] = 26 THEN ParseVersion26(data, filename)
    ELSE ParseVersion30(data, filename)

\* lines 194-213, on the (decompressed) data
ParseHeader(data, filename) ==
    IF Len(data) < 4 THEN None ELSE Dispatch(data, filename, UnpackI(data, 0)[1])

\* ParseData with compressed_count incremented after a successful decoding
ParseDataCountDecoded(data, compressed, filename) ==
    IF data = None THEN ParseResult(None, FALSE, TRUE)
    ELSE ParseResult(ParseHeader(data[1], filename), compressed, FALSE)

\* lines 187-199: "if not data" ends a compressed file whose decoding failed
ParseData(data, compressed, filename) ==
    IF data = None THEN ParseResult(None, TRUE, TRUE)
    ELSE ParseResult(ParseHeader(data[1], filename), compressed, FALSE)

\* lines 182-186: only a file with the signature goes through _decompress_mam
LoadData(bytes) ==
    IF Slice(bytes, 0, 4) = MamSignature THEN DecompressMam(bytes) ELSE <<bytes>>

ParsePrefetchFile(file, filename) ==
    IF ~file.readable THEN ParseResult(None, FALSE, FALSE)
    ELSE ParseData(LoadData(file.bytes), Slice(file.bytes, 0, 4) = MamSignature, filename)

(***************************************************************************)
(* _add_to_timeline and _add_to_programs                                   *)
(***************************************************************************)
Range(seq) == {seq[i] : i \in 1..Len(seq)}

\* min() and max() of a non-empty list of datetimes
MinTime(times) == CHOOSE t \in Range(times) : \A u \in Range(times) : LimbLeq(t, u)

MaxTime(times) == CHOOSE t \in Range(times) : \A u \in Range(times) : LimbLeq(u, t)

\* the count of the later record instead of the maximum
LatestCount(a, b) == b

\* max() of two unsigned values
MaxCount(a, b) == IF LimbLess(a, b) THEN b ELSE a

\* the entries appended for the execution times from index i on; a datetime
\* is always true, so "if exec_time" keeps every one of them
RECURSIVE TimelineEntries(_, _)
TimelineEntries(pf_data, i) ==
    IF i > Len(pf_data.execution_times) THEN <<>>
    ELSE <<[timestamp     |-> pf_data.execution_times[i],
            executable    |-> pf_data.executable_name,
            prefetch_file |-> pf_data.filename,
            type          |-> "execution"]>>
         \o TimelineEntries(pf_data, i + 1)

\* AddToTimeline with one entry per record, for its last execution
AddLastExecution(timeline, pf_data) ==
    IF pf_data.last_execution = None THEN timeline
    ELSE Append(timeline, [timestamp     |-> pf_data.last_execution,
                           executable    |-> pf_data.executable_name,
                           prefetch_file |-> pf_data.filename,
                           type          |-> "execution"])

AddToTimeline(timeline, pf_data) == timeline \o TimelineEntries(pf_data, 1)

\* lines 572-574: append every new time that the list does not hold yet
RECURSIVE MergeTimes(_, _, _)
MergeTimes(times, new_times, i) ==
    IF i > Len(new_times) THEN times
    ELSE IF new_times[i] \in Range(times) THEN MergeTimes(times, new_times, i + 1)
    ELSE MergeTimes(Append(times, new_times[i]), new_times, i + 1)

\* lines 552-564: the first record of a name
NewProgram(pf_data) ==
    [name            |-> pf_data.executable_name,
     run_count       |-> pf_data.run_count,
     last_execution  |-> pf_data.last_execution,
     first_execution |-> IF pf_data.execution_times # <<>>
                         THEN MinTime(pf_data.execution_times) ELSE None,
     execution_times |-> pf_data.execution_times,
     prefetch_files  |-> <<pf_data.filename>>,
     version         |-> pf_data.version]

\* UpdateWith taking last_execution from the later record instead of the
\* maximum of the merged times
UpdateTakeLatest(prog, pf_data, times) ==
        [prog EXCEPT
            !.run_count       = MaxCount(prog.run_count, pf_data.run_count),
            !.prefetch_files  = Append(prog.prefetch_files, pf_data.filename),
            !.execution_times = times,
            !.last_execution  = pf_data.last_execution,
            !.first_execution = IF times # <<>> THEN MinTime(times)
                                ELSE prog.first_execution]

\* UpdateWith without line 569: the file of a later record is not listed
UpdateKeepFiles(prog, pf_data, times) ==
        [prog EXCEPT
            !.run_count       = MaxCount(prog.run_count, pf_data.run_count),
            !.execution_times = times,
            !.last_execution  = IF times # <<>> THEN MaxTime(times)
                                ELSE prog.last_execution,
            !.first_execution = IF times # <<>> THEN MinTime(times)
                                ELSE prog.first_execution]

\* lines 567-579: a later record of the name, times being the merged list
UpdateWith(prog, pf_data, times) ==
        [prog EXCEPT
            !.run_count       = MaxCount(prog.run_count, pf_data.run_count),
            !.prefetch_files  = Append(prog.prefetch_files, pf_data.filename),
            !.execution_times = times,
            !.last_execution  = IF times # <<>> THEN MaxTime(times)
                                ELSE prog.last_execution,
            !.first_execution = IF times # <<>> THEN MinTime(times)
                                ELSE prog.first_execution]

UpdateProgram(prog, pf_data) ==
    UpdateWith(prog, pf_data,
               MergeTimes(prog.execution_times, pf_data.execution_times, 1))

EmptyPrograms == [n \in {} |-> None]

AddToPrograms(progs, pf_data) ==
    LET exec_name == pf_data.executable_name
    IN  IF exec_name \notin DOMAIN progs
        THEN [n \in DOMAIN progs \cup {exec_name} |->
                 IF n = exec_name THEN NewProgram(pf_data) ELSE progs[n]]
        ELSE [progs EXCEPT ![exec_name] = UpdateProgram(progs[exec_name], pf_data)]

\* SortTimeline without reverse=True: stable, ascending
SortAscending(timeline) ==
    LET n == Len(timeline)
        place(i) == Cardinality({j \in 1..n :
                        \/ LimbLess(timeline[j].timestamp, timeline[i].timestamp)
                        \/ (j < i /\ timeline[j].timestamp = timeline[i].timestamp)}) + 1
    IN  [p \in 1..n |-> timeline[CHOOSE i \in 1..n : place(i) = p]]

\* list.sort(key=timestamp, reverse=True): stable, descending
SortTimeline(timeline) ==
    LET n == Len(timeline)
        place(i) == Cardinality({j \in 1..n :
                        \/ LimbLess(timeline[i].timestamp, timeline[j].timestamp)
                        \/ (j < i /\ timeline[j].timestamp = timeline[i].timestamp)}) + 1
    IN  [p \in 1..n |-> timeline[CHOOSE i \in 1..n : place(i) = p]]

(***************************************************************************)
(* Inputs: the files of the Prefetch directory.                            *)
(*                                                                         *)
(* Synthetic buffers are laid out by the table of the specification        *)
(* (section 4.3), independently of the parsers above; every byte outside   *)
(* a field is a filler, so that a read at a wrong offset shows.            *)
(***************************************************************************)
MaxFiles == 3

Filler == 238

BufferSize == 224

RECURSIVE Fill(_)
Fill(n) ==
    IF n <= 0 THEN <<>>
    ELSE IF n = 1 THEN <<Filler>>
    ELSE Fill(n \div 2) \o Fill(n - n \div 2)

U16Bytes(n) == <<n % 256, n \div 256>>

U32Bytes(u) == U16Bytes(u[2]) \o U16Bytes(u[1])

U64Bytes(f) == U16Bytes(f[4]) \o U16Bytes(f[3]) \o U16Bytes(f[2]) \o U16Bytes(f[1])

RECURSIVE Utf16Bytes(_)
Utf16Bytes(units) ==
    IF units = <<>> THEN <<>> ELSE U16Bytes(Head(units)) \o Utf16Bytes(Tail(units))

RECURSIVE SlotBytes(_)
SlotBytes(slots) ==
    IF slots = <<>> THEN <<>> ELSE U64Bytes(Head(slots)) \o SlotBytes(Tail(slots))

Patch(buf, off, bytes) ==
    SubSeq(buf, 1, off) \o bytes \o SubSeq(buf, off + Len(bytes) + 1, Len(buf))

\* the layout table: offsets of the name window, the hash, the run count and
\* the execution-time slots, and the number of slots
LayoutRow(v) ==
    [name |-> 16, name_len |-> 60, hash |-> 76,
     run_count |-> IF v = 17 THEN 144 ELSE IF v = 23 THEN 152 ELSE 208,
     times |-> IF v = 17 THEN 120 ELSE 128,
     slots |-> IF v \in {17, 23} THEN 1 ELSE 8]

\* a buffer stamped with the version code `stamp`, laid out by the row of
\* version v, cut to `length` bytes
Synthetic(stamp, v, name, hash, run_count, slots, length) ==
    LET row == LayoutRow(v)
        b0  == Patch(Fill(BufferSize), 0, U32Bytes(stamp))
        b1  == Patch(b0, row.name, Utf16Bytes(name) \o Zeros(row.name_len - 2 * Len(name)))
        b2  == Patch(b1, row.hash, U32Bytes(hash))
        b3  == Patch(b2, row.run_count, U32Bytes(run_count))
        b4  == Patch(b3, row.times,
                     SlotBytes(slots) \o Zeros(8 * (row.slots - Len(slots))))
    IN  Slice(b4, 0, length)

MamFile(declared, payload) == MamSignature \o U32Bytes(declared) \o payload

\* an uncompressed chunk: header 0x3000 | (size - 1)
RawChunk(bytes) == U16Bytes(12288 + Len(bytes) - 1) \o bytes

\* a compressed chunk: header 0xB000 | (size - 1)
PackedChunk(body) == U16Bytes(45056 + Len(body) - 1) \o body

FtZero == <<0, 0, 0, 0>>

\* 133000000000000010 (2022-06-18), 133500000000000000 (2024-01-17), 25 and
\* 2^64 - 1
FtJune2022 == <<472, 33483, 39712, 32778>>

FtJan2024 == <<474, 18826, 60803, 49152>>

FtTiny == <<0, 0, 0, 25>>

FtHuge == <<65535, 65535, 65535, 65535>>

NameA == <<65>>

NameB == <<66>>

NameLowerA == <<97>>

Readable(bytes) == [readable |-> TRUE, bytes |-> bytes]

BufA17 == Synthetic(<<0, 17>>, 17, NameA, <<4660, 43981>>, <<0, 5>>, <<FtJune2022>>, 224)

BufBig30 == Synthetic(<<0, 30>>, 30, NameB, <<65535, 1>>, <<32768, 5>>,
                      <<FtJune2022, FtJan2024>>, 224)

Pool ==
    [f \in {"A17.pf", "A23.pf", "A26.pf", "B30.pf", "B17Z.pf", "a30.pf", "V99.pf",
            "T26.pf", "S3.pf", "NOREAD.pf", "MOK.pf", "MBAD.pf", "MRLE.pf",
            "W30.pf", "T17.pf", "T23.pf", "T30.pf", "MCUT.pf", "MNIL.pf"} |->
        IF f = "A17.pf" THEN Readable(BufA17)
        ELSE IF f = "A23.pf" THEN
            Readable(Synthetic(<<0, 23>>, 23, NameA, <<1, 2>>, <<0, 7>>, <<FtJan2024>>, 224))
        ELSE IF f = "A26.pf" THEN
            Readable(Synthetic(<<0, 26>>, 26, NameA, <<1, 2>>, <<0, 3>>,
                               <<FtJan2024, FtJune2022, FtZero, FtJune2022>>, 212))
        ELSE IF f = "B30.pf" THEN Readable(BufBig30)
        ELSE IF f = "B17Z.pf" THEN
            Readable(Synthetic(<<0, 17>>, 17, NameB, <<0, 0>>, <<0, 1>>, <<FtZero>>, 148))
        ELSE IF f = "a30.pf" THEN
            Readable(Synthetic(<<0, 30>>, 30, NameLowerA, <<0, 255>>, <<0, 1>>,
                               <<FtHuge, FtTiny>>, 224))
        ELSE IF f = "V99.pf" THEN
            Readable(Synthetic(<<0, 99>>, 30, NameA, <<1, 2>>, <<0, 9>>, <<FtJan2024>>, 224))
        ELSE IF f = "W30.pf" THEN
            Readable(Synthetic(<<1, 30>>, 30, NameB, <<1, 2>>, <<0, 9>>, <<FtJan2024>>, 224))
        ELSE IF f = "T17.pf" THEN
            Readable(Synthetic(<<0, 17>>, 17, NameA, <<1, 2>>, <<0, 9>>, <<FtJan2024>>, 40))
        ELSE IF f = "T23.pf" THEN
            Readable(Synthetic(<<0, 23>>, 23, NameA, <<1, 2>>, <<0, 9>>, <<FtJan2024>>, 78))
        ELSE IF f = "T30.pf" THEN
            Readable(Synthetic(<<0, 30>>, 30, NameB, <<1, 2>>, <<0, 9>>, <<FtJan2024>>, 130))
        ELSE IF f = "MCUT.pf" THEN Readable(MamSignature \o <<224, 0>>)
        ELSE IF f = "MNIL.pf" THEN Readable(MamFile(ToU32(0), <<>>))
        ELSE IF f = "T26.pf" THEN
            Readable(Synthetic(<<0, 26>>, 26, NameA, <<1, 2>>, <<0, 9>>, <<FtJan2024>>, 208))
        ELSE IF f = "S3.pf" THEN Readable(<<17, 0, 0>>)
        ELSE IF f = "NOREAD.pf" THEN [readable |-> FALSE, bytes |-> <<>>]
        ELSE IF f = "MOK.pf" THEN
            Readable(MamFile(ToU32(224), RawChunk(BufBig30)))
        ELSE IF f = "MBAD.pf" THEN
            Readable(MamFile(ToU32(1000), RawChunk(BufA17 \o Fill(576)) \o <<0, 0>>))
        ELSE Readable(MamFile(ToU32(148), PackedChunk(<<4, 17, 0, 143, 0>>)))]

\* the results of glob('*.pf'): up to MaxFiles distinct paths, in any order
RECURSIVE FileSequences(_)
FileSequences(n) ==
    IF n = 0 THEN {<<>>}
    ELSE LET shorter == FileSequences(n - 1)
         IN  shorter \cup {Append(q, f) : q \in {x \in shorter : Len(x) = n - 1},
                                           f \in DOMAIN Pool}

\* _parse_prefetch_file on every file of the pool, computed once: the
\* result for a file depends on its bytes and its name only
Parsed == [f \in DOMAIN Pool |-> ParsePrefetchFile(Pool[f], f)]

(***************************************************************************)
(* analyze()                                                               *)
(***************************************************************************)
VARIABLES
    enumerable,           \* find_prefetch_files() returns (TRUE) or raises
    pf_files,             \* the paths it returns
    pc,                   \* "start", "loop", "done" or "raised"
    idx,                  \* the loop index of analyze()
    prefetch_files,       \* self.prefetch_files
    execution_timeline,   \* self.execution_timeline
    programs,             \* self.programs
    compressed_count,     \* self.compressed_count
    decompression_failed, \* self.decompression_failed
    mam_calls,            \* history: the names _decompress_mam was called for
    tracker,              \* the ProgressTracker of analyze(): state and value
    probe                 \* a direct call of one method: its arguments and result

vars == <<enumerable, pf_files, pc, idx, prefetch_files, execution_timeline,
          programs, compressed_count, decompression_failed, mam_calls, tracker,
          probe>>

\* ProgressTracker (src/core/progress_manager.py): total is 100; callback
\* tells whether analyze() was given a progress_callback.  The message, the
\* history and the clock are left out: the clock shows only in whether
\* update() calls the callback or skips it.  An invocation of the callback
\* has an outcome: "none" (no callback), "skipped" (rate limit), "returns"
\* or "raises" (an Exception).  escaped tells whether the last call of the
\* tracker let an exception out.  calls is the history of the values the
\* callback was invoked with; start(), update() and complete() invoke it
\* with the value they have just stored in current_value.
TrackerTotal == 100

NewTracker(callback) ==
    [state |-> "idle", current_value |-> 0, callback |-> callback,
     callback_count |-> 0, callback_errors |-> 0, escaped |-> FALSE,
     calls |-> <<>>]

TrackerIdle == NewTracker(FALSE)

\* the outcomes that the call with this value can have: update() always
\* calls the callback for 0 and for the total (lines 126-131), start() and
\* complete() always call it
Outcomes(t, value) ==
    IF ~t.callback THEN {"none"}
    ELSE IF value = 0 \/ value = TrackerTotal THEN {"returns", "raises"}
    ELSE {"skipped", "returns", "raises"}

\* SafeCallback without the try/except: the exception leaves the tracker
UnsafeCallback(t, outcome) ==
    IF ~t.callback \/ outcome \in {"none", "skipped"} THEN [t EXCEPT !.escaped = FALSE]
    ELSE IF outcome = "returns"
    THEN [t EXCEPT !.callback_count = t.callback_count + 1, !.escaped = FALSE,
                   !.calls = Append(t.calls, t.current_value)]
    ELSE [t EXCEPT !.escaped = TRUE, !.calls = Append(t.calls, t.current_value)]

\* _safe_callback (lines 218-230), and the branch of update() that skips it
SafeCallback(t, outcome) ==
    IF ~t.callback \/ outcome \in {"none", "skipped"} THEN [t EXCEPT !.escaped = FALSE]
    ELSE IF outcome = "returns"
    THEN [t EXCEPT !.callback_count = t.callback_count + 1, !.escaped = FALSE,
                   !.calls = Append(t.calls, t.current_value)]
    ELSE [t EXCEPT !.callback_errors = t.callback_errors + 1, !.escaped = FALSE,
                   !.calls = Append(t.calls, t.current_value)]

TrackerStart(t, outcome) ==
    SafeCallback([t EXCEPT !.state = "running", !.current_value = 0], outcome)

TrackerUpdate(t, value, outcome) ==
    IF t.state \notin {"running", "paused"} THEN [t EXCEPT !.escaped = FALSE]
    ELSE SafeCallback([t EXCEPT !.current_value =
                                   IF value < 0 THEN 0 ELSE Min2(value, TrackerTotal)],
                      outcome)

TrackerComplete(t, outcome) ==
    SafeCallback([t EXCEPT !.state = "completed", !.current_value = TrackerTotal],
                 outcome)

\* LoopProgress spread over 100 instead of 60
LoopProgressWide(i, n) == 10 + (i * 100) \div n

\* line 121: 10 + int((idx / len(pf_files)) * 60)
LoopProgress(i, n) == 10 + (i * 60) \div n

\* the analyzer as __init__ leaves it (lines 54-58), its tracker not started
FreshAnalyzer ==
    /\ idx = 0
    /\ prefetch_files = <<>>
    /\ execution_timeline = <<>>
    /\ programs = EmptyPrograms
    /\ compressed_count = 0
    /\ decompression_failed = <<>>
    /\ mam_calls = <<>>

\* analyze() called without a progress_callback
Fresh == FreshAnalyzer /\ tracker = TrackerIdle

\* __init__ (lines 54-58), and the directory that analyze() will find
Init ==
    /\ enumerable \in BOOLEAN
    /\ pf_files \in {q \in FileSequences(MaxFiles) :
                        /\ \A i, j \in 1..Len(q) : i # j => q[i] # q[j]
                        /\ enumerable \/ q = <<>>}
    /\ pc = "start"
    /\ probe = None
    /\ Fresh

\* lines 104-116: FileSystemError is re-raised (line 155); no file ends the
\* analysis with an empty result
\* An exception that leaves tracker.start() (line 105, outside the try)
\* leaves analyze(); one that leaves complete() or update() (lines 112, 116)
\* is wrapped at line 158
FoundFiles(started, told) ==
    /\ pc' = IF started.escaped \/ ~enumerable THEN "raised"
             ELSE IF told.escaped THEN "raised"
             ELSE IF pf_files = <<>> THEN "done"
             ELSE "loop"
    /\ tracker' = IF started.escaped \/ ~enumerable THEN started ELSE told

FindFiles ==
    /\ pc = "start"
    /\ \E o1 \in Outcomes(tracker, 0),
          o2 \in Outcomes(tracker, IF pf_files = <<>> THEN TrackerTotal ELSE 10) :
           FoundFiles(TrackerStart(tracker, o1),
                      IF pf_files = <<>>
                      THEN TrackerComplete(TrackerStart(tracker, o1), o2)
                      ELSE TrackerUpdate(TrackerStart(tracker, o1), 10, o2))
    /\ UNCHANGED <<enumerable, pf_files, idx, prefetch_files, execution_timeline,
                   programs, compressed_count, decompression_failed, mam_calls, probe>>

\* CopiedList for an aggregate seeded with the record's own list object:
\* the record reads what the aggregate has appended
SharedList(record_times, aggregate_times) == aggregate_times

\* line 557: execution_times.copy() gives the aggregate a list object of
\* its own, so the appends of line 574 do not reach the list of the record
\* that seeded it; what that record's list holds after a merge
CopiedList(record_times, aggregate_times) == record_times

\* the record that seeded the aggregate of its name: the first of the name
Seeded(files, i) == \A j \in 1..(i - 1) : files[j].executable_name # files[i].executable_name

\* the dictionaries appended at line 126 as they read once the aggregates
\* are progs (lines 551-574)
StoredRecords(files, progs) ==
    [i \in 1..Len(files) |->
        IF Seeded(files, i)
        THEN [files[i] EXCEPT !.execution_times =
                  CopiedList(@, progs[files[i].executable_name].execution_times)]
        ELSE files[i]]

\* lines 124-128 and the counters of _parse_prefetch_file: what one file
\* leaves in the analyzer, r being the result of _parse_prefetch_file
Collect(name, r) ==
    /\ compressed_count' = compressed_count + (IF r.compressed THEN 1 ELSE 0)
    /\ decompression_failed' = IF r.failed THEN Append(decompression_failed, name)
                               ELSE decompression_failed
    /\ mam_calls' = IF r.mam_calls = 1 THEN Append(mam_calls, name) ELSE mam_calls
    /\ IF r.rec # None
       THEN /\ prefetch_files' = StoredRecords(Append(prefetch_files, r.rec[1]),
                                              AddToPrograms(programs, r.rec[1]))
            /\ execution_timeline' = AddToTimeline(execution_timeline, r.rec[1])
            /\ programs' = AddToPrograms(programs, r.rec[1])
       ELSE UNCHANGED <<prefetch_files, execution_timeline, programs>>

\* lines 120-132: an exception that leaves tracker.update() is caught at
\* line 130 and the file is passed over
Processed1(told, name) ==
    /\ tracker' = told
    /\ IF told.escaped
       THEN UNCHANGED <<prefetch_files, execution_timeline, programs,
                        compressed_count, decompression_failed, mam_calls>>
       ELSE Collect(name, Parsed[name])

\* lines 119-132: one pass of the loop over pf_files
ProcessFile ==
    /\ pc = "loop"
    /\ idx < Len(pf_files)
    /\ \E o \in Outcomes(tracker, LoopProgress(idx, Len(pf_files))) :
           Processed1(TrackerUpdate(tracker, LoopProgress(idx, Len(pf_files)), o),
                      pf_files[idx + 1])
    /\ idx' = idx + 1
    /\ UNCHANGED <<enumerable, pf_files, pc, probe>>

\* lines 134-153: the timeline is sorted and analyze() returns self.programs
\* An exception that leaves update() at line 134 or complete() at line 149
\* is wrapped at line 158, before or after the sort
BuiltTimeline(told, completed) ==
    /\ execution_timeline' = IF told.escaped THEN execution_timeline
                             ELSE SortTimeline(execution_timeline)
    /\ tracker' = IF told.escaped THEN told ELSE completed
    /\ pc' = IF told.escaped \/ completed.escaped THEN "raised" ELSE "done"

BuildTimeline ==
    /\ pc = "loop"
    /\ idx = Len(pf_files)
    /\ \E o1 \in Outcomes(tracker, 70), o2 \in Outcomes(tracker, TrackerTotal) :
           BuiltTimeline(TrackerUpdate(tracker, 70, o1),
                         TrackerComplete(TrackerUpdate(tracker, 70, o1), o2))
    /\ UNCHANGED <<enumerable, pf_files, idx, prefetch_files, programs,
                   compressed_count, decompression_failed, mam_calls, probe>>

\* get_statistics (lines 640-646)
GetStatistics ==
    [total_programs         |-> Cardinality(DOMAIN programs),
     total_prefetch_files   |-> Len(prefetch_files),
     compressed_files       |-> compressed_count,
     decompression_failures |-> Len(decompression_failed),
     timeline_entries       |-> Len(execution_timeline)]

Next == FindFiles \/ ProcessFile \/ BuildTimeline

Spec == Init /\ [][Next]_vars

(***************************************************************************)
(* What a file of the directory is, read off its bytes alone.              *)
(***************************************************************************)
Processed == {pf_files[i] : i \in 1..idx}

Records == Range(prefetch_files)

HasSignature(f) == Pool[f].readable /\ Slice(Pool[f].bytes, 0, 4) = MamSignature

\* the u32 declared at bytes 4-7 of a MAM file (None when the header is cut)
Declared(f) == UnpackI(Pool[f].bytes, 4)

\* the output of the LZNT1 engine for the payload of a MAM file
EngineOutput(f) ==
    Lznt1Decompress(Slice(Pool[f].bytes, 8, Len(Pool[f].bytes)), Declared(f)[1])

\* a MAM file whose LZNT1 output length differs from the declared size
SizeMismatch(f) ==
    /\ HasSignature(f)
    /\ Declared(f) # None
    /\ ToU32(Len(EngineOutput(f))) # Declared(f)[1]

\* the bytes that reach the version parsers
Content(f) ==
    IF ~HasSignature(f) THEN Pool[f].bytes
    ELSE IF Declared(f) = None THEN <<>>
    ELSE EngineOutput(f)

Contents == [f \in DOMAIN Pool |-> Content(f)]

Mismatch == [f \in DOMAIN Pool |-> SizeMismatch(f)]

\* the bytes every fixed-offset read of a layout row needs
RowLength(row) ==
    LET ends == {row.hash + 4, row.run_count + 4, row.times + 8}
    IN  CHOOSE n \in ends : \A m \in ends : m <= n

Supported(version) == version[1] = 0 /\ version[2] \in {17, 23, 26, 30}

\* unreadable, cut MAM header, size mismatch, fewer than four bytes,
\* unsupported version or truncated record
PerFileFailure(f) ==
    \/ ~Pool[f].readable
    \/ HasSignature(f) /\ Declared(f) = None
    \/ SizeMismatch(f)
    \/ Len(Content(f)) < 4
    \/ ~Supported(UnpackI(Content(f), 0)[1])
    \/ Len(Content(f)) < RowLength(LayoutRow(UnpackI(Content(f), 0)[1][2]))

Failure == [f \in DOMAIN Pool |-> PerFileFailure(f)]

\* q without its failing files
RECURSIVE Surviving(_)
Surviving(q) ==
    IF q = <<>> THEN <<>>
    ELSE (IF Failure[Head(q)] THEN <<>> ELSE <<Head(q)>>) \o Surviving(Tail(q))

\* the programs map and the unsorted timeline that the loop of analyze()
\* builds from the files q[1..i]
RECURSIVE ProgramsOf(_, _)
ProgramsOf(q, i) ==
    IF i = 0 THEN EmptyPrograms
    ELSE IF Parsed[q[i]].rec = None THEN ProgramsOf(q, i - 1)
    ELSE AddToPrograms(ProgramsOf(q, i - 1), Parsed[q[i]].rec[1])

RECURSIVE TimelineOf(_, _)
TimelineOf(q, i) ==
    IF i = 0 THEN <<>>
    ELSE IF Parsed[q[i]].rec = None THEN TimelineOf(q, i - 1)
    ELSE AddToTimeline(TimelineOf(q, i - 1), Parsed[q[i]].rec[1])

(***************************************************************************)
(* Properties of analyze() (specification Spec)                            *)
(***************************************************************************)
\* C1, step part: processing a MAM file whose LZNT1 output length differs
\* from the declared size changes none of programs, execution_timeline and
\* prefetch_files, and decodes the file once
C1_MismatchStep ==
    (pc = "loop" /\ idx < Len(pf_files) /\ Mismatch[pf_files[idx + 1]])
    => /\ UNCHANGED <<programs, execution_timeline, prefetch_files>>
       /\ mam_calls' = Append(mam_calls, pf_files[idx + 1])
       /\ pf_files[idx + 1] \notin Range(mam_calls)

\* C1, state part: a processed file with a size mismatch has no record and
\* was handed to _decompress_mam exactly once
C1_MismatchState ==
    \A f \in Processed :
        Mismatch[f] =>
            /\ \A r \in Records : r.filename # f
            /\ Cardinality({i \in 1..Len(mam_calls) : mam_calls[i] = f}) = 1

\* C1: a MAM file whose LZNT1 output length differs from the declared size
\* creates no record, leaves programs, execution_timeline and
\* prefetch_files as they were before it, and is not decoded a second time
C1_SizeMismatchRejected == []C1_MismatchState /\ [][C1_MismatchStep]_vars

\* C1: a file with a size mismatch has been processed after a file that
\* left a record
C1_Witness ==
    \E i \in 1..idx :
        /\ Mismatch[pf_files[i]]
        /\ pf_files[i] \in Range(decompression_failed)
        /\ \E r \in Records : \E j \in 1..(i - 1) : pf_files[j] = r.filename

\* C2: no per-file failure leaves analyze(): the run ends with every file
\* processed, programs and the timeline being those of the same sequence
\* without its failing files; analyze() raises only when the files cannot
\* be enumerated
C2_FailuresIsolated ==
    /\ pc = "raised" => ~enumerable
    /\ pc = "done" =>
        /\ idx = Len(pf_files)
        /\ programs = ProgramsOf(Surviving(pf_files), Len(Surviving(pf_files)))
        /\ execution_timeline =
               SortTimeline(TimelineOf(Surviving(pf_files), Len(Surviving(pf_files))))

\* C2: a finished run in which a failing file came before a file that left
\* a record
C2_Witness ==
    /\ pc = "done"
    /\ \E i, j \in 1..Len(pf_files) :
           /\ i < j
           /\ Failure[pf_files[i]]
           /\ \E r \in Records : r.filename = pf_files[j]
    /\ execution_timeline # <<>>

\* C3: after analyze() every file without a record is in a failure list
\* or counter: the files processed are len(prefetch_files) plus the
\* recorded failures (decompression_failed is the only such list)
C3_EveryFailureCounted ==
    pc = "done" => Len(pf_files) = Len(prefetch_files) + Len(decompression_failed)

\* C5: every aggregate with execution times has last_execution equal to
\* their maximum and first_execution equal to their minimum
C5_AggregateBounds ==
    \A n \in DOMAIN programs :
        programs[n].execution_times # <<>> =>
            /\ programs[n].last_execution = MaxTime(programs[n].execution_times)
            /\ programs[n].first_execution = MinTime(programs[n].execution_times)

\* the fields that merging in either order must agree on
SameAggregate(p, q) ==
    /\ p.run_count = q.run_count
    /\ Range(p.execution_times) = Range(q.execution_times)
    /\ p.first_execution = q.first_execution
    /\ p.last_execution = q.last_execution

\* C6: when two records A and B of one executable name have been merged,
\* A first, the aggregate agrees with the one of merging B first on
\* run_count, the set of execution times, first_execution and
\* last_execution
C6_MergeCommutes ==
    (/\ Len(prefetch_files) = 2
     /\ prefetch_files[1].executable_name = prefetch_files[2].executable_name)
    => SameAggregate(
           programs[prefetch_files[1].executable_name],
           AddToPrograms(AddToPrograms(EmptyPrograms, prefetch_files[2]),
                         prefetch_files[1])[prefetch_files[1].executable_name])

\* C6: two records of one name with different run counts, different
\* times, the second one holding the earlier time
C6_Witness ==
    /\ Len(prefetch_files) = 2
    /\ prefetch_files[1].executable_name = prefetch_files[2].executable_name
    /\ prefetch_files[1].run_count # prefetch_files[2].run_count
    /\ prefetch_files[1].execution_times # <<>>
    /\ prefetch_files[2].execution_times # <<>>
    /\ LimbLess(prefetch_files[2].last_execution, prefetch_files[1].last_execution)

\* the run counts of the records merged into the aggregate of name n
CountsOf(n) == {r.run_count : r \in {x \in Records : x.executable_name = n}}

\* C7, state part: run_count is the maximum over the records merged
C7_RunCountIsMax ==
    \A n \in DOMAIN programs :
        /\ programs[n].run_count \in CountsOf(n)
        /\ \A c \in CountsOf(n) : LimbLeq(c, programs[n].run_count)

\* C7, step part: no step lowers the run_count of an aggregate
C7_RunCountStep ==
    \A n \in DOMAIN programs :
        /\ n \in DOMAIN programs'
        /\ LimbLeq(programs[n].run_count, programs'[n].run_count)

\* C7: the run_count of an aggregate never decreases and is the maximum
\* run_count of the records merged for its name
C7_RunCountMonotone == []C7_RunCountIsMax /\ [][C7_RunCountStep]_vars

\* C7: an aggregate of two records whose later record has the smaller count
C7_Witness ==
    \E i, j \in 1..Len(prefetch_files) :
        /\ i < j
        /\ prefetch_files[i].executable_name = prefetch_files[j].executable_name
        /\ LimbLess(prefetch_files[j].run_count, prefetch_files[i].run_count)

\* slot i (from 0) of a layout row
RowSlot(data, row, i) == UnpackQ(data, row.times + 8 * i)[1]

\* the timestamps of the non-zero slots i.. of a row, in slot order
RECURSIVE NonZeroTimes(_, _, _)
NonZeroTimes(data, row, i) ==
    IF i >= row.slots THEN <<>>
    ELSE (IF RowSlot(data, row, i) = FtZero THEN <<>>
          ELSE AppendIfSet(FiletimeToDatetime(RowSlot(data, row, i))))
         \o NonZeroTimes(data, row, i + 1)

\* the files without a per-file failure, and the layout row of each
WellFormed == {f \in DOMAIN Pool : ~Failure[f]}

RowOf == [f \in WellFormed |-> LayoutRow(UnpackI(Contents[f], 0)[1][2])]

\* the slots of each well-formed file, and the times of its non-zero slots
Slots == [f \in WellFormed |-> [i \in 0..(RowOf[f].slots - 1) |->
                                    RowSlot(Contents[f], RowOf[f], i)]]

SlotTimes == [f \in WellFormed |-> NonZeroTimes(Contents[f], RowOf[f], 0)]

\* C8: a zero FILETIME slot contributes no timestamp: the execution times
\* of a record are those of its non-zero slots, a record whose slots are
\* all zero has last_execution none, and aggregates and timeline entries
\* hold only timestamps of their records
C8_ZeroFiletimeAbsent ==
    /\ \A r \in Records :
           /\ r.filename \in WellFormed
           /\ r.execution_times = SlotTimes[r.filename]
           /\ (\A i \in DOMAIN Slots[r.filename] : Slots[r.filename][i] = FtZero)
              => r.last_execution = None /\ r.execution_times = <<>>
    /\ \A n \in DOMAIN programs :
           \A t \in Range(programs[n].execution_times) :
               \E r \in Records :
                   r.executable_name = n /\ t \in Range(r.execution_times)
    /\ \A i \in 1..Len(execution_timeline) :
           \E r \in Records :
               /\ r.filename = execution_timeline[i].prefetch_file
               /\ execution_timeline[i].timestamp \in Range(r.execution_times)

\* C8: a record whose only slot is zero, and a record with a zero slot
\* between non-zero ones, both in the programs map and the second one in
\* the timeline
C8_Witness ==
    /\ \E r \in Records :
           /\ DOMAIN Slots[r.filename] = {0}
           /\ Slots[r.filename][0] = FtZero
           /\ r.last_execution = None
           /\ r.executable_name \in DOMAIN programs
    /\ \E r \in Records :
           /\ 3 \in DOMAIN Slots[r.filename]
           /\ Slots[r.filename][1] # FtZero
           /\ Slots[r.filename][2] = FtZero
           /\ Slots[r.filename][3] # FtZero
           /\ Len(r.execution_times) = 3
           /\ \E i \in 1..Len(execution_timeline) :
                  execution_timeline[i].prefetch_file = r.filename

\* the timestamps that the converter gives for the slots i.. of a row
RECURSIVE RowTimes(_, _, _)
RowTimes(data, row, i) ==
    IF i >= row.slots THEN <<>>
    ELSE AppendIfSet(FiletimeToDatetime(RowSlot(data, row, i)))
         \o RowTimes(data, row, i + 1)

\* an uncompressed buffer stamped with a supported version, long enough for
\* the reads of its row
LongBuffer(f) ==
    /\ Pool[f].readable
    /\ ~HasSignature(f)
    /\ Len(Pool[f].bytes) >= 4
    /\ Supported(UnpackI(Pool[f].bytes, 0)[1])
    /\ Len(Pool[f].bytes) >= RowLength(LayoutRow(UnpackI(Pool[f].bytes, 0)[1][2]))

LongBuffers == {f \in DOMAIN Pool : LongBuffer(f)}

\* what the layout row of its version gives for a buffer stamped v: the
\* name from the 60 bytes at 0x10, the hash from the u32 at 0x4C, the run
\* count and the execution times from the offsets of the row
RowFields(data, v) ==
    [version         |-> v,
     executable_name |-> RStripNul(DecodeUtf16(
                             Slice(data, LayoutRow(v).name,
                                   LayoutRow(v).name + LayoutRow(v).name_len))),
     prefetch_hash   |-> Hex08X(UnpackI(data, LayoutRow(v).hash)[1]),
     run_count       |-> UnpackI(data, LayoutRow(v).run_count)[1],
     execution_times |-> RowTimes(data, LayoutRow(v), 0)]

Expected ==
    [f \in LongBuffers |-> RowFields(Pool[f].bytes, UnpackI(Pool[f].bytes, 0)[1][2])]

\* C10: every processed uncompressed buffer whose first u32 is a supported
\* version v and that is long enough has a record with version v whose
\* name, hash, run count and execution times are read at the offsets of
\* the layout row of v
C10_LayoutDispatch ==
    \A f \in Processed \cap LongBuffers :
        \E r \in Records :
            /\ r.filename = f
            /\ r.version = Expected[f].version
            /\ r.executable_name = Expected[f].executable_name
            /\ r.prefetch_hash = Expected[f].prefetch_hash
            /\ r.run_count = Expected[f].run_count
            /\ r.execution_times = Expected[f].execution_times

\* C10: uncompressed buffers of all four versions have been processed
\* (three of them in one run, the pool holding all four)
C10_Witness ==
    /\ Cardinality({Expected[f].version : f \in Processed \cap LongBuffers}) >= 3
    /\ {Expected[f].version : f \in LongBuffers} = {17, 23, 26, 30}

\* the files whose bytes reach the version test of line 201 with a first
\* u32 outside {17, 23, 26, 30}
UnknownVersion ==
    {f \in DOMAIN Pool :
        /\ Pool[f].readable
        /\ ~(HasSignature(f) /\ Declared(f) = None)
        /\ ~Mismatch[f]
        /\ Len(Contents[f]) >= 4
        /\ ~Supported(UnpackI(Contents[f], 0)[1])}

\* C11, state part: every record and every aggregate has a version among
\* 17, 23, 26 and 30
C11_VersionState ==
    /\ \A r \in Records : r.version \in {17, 23, 26, 30}
    /\ \A n \in DOMAIN programs : programs[n].version \in {17, 23, 26, 30}

\* C11, step part: processing a buffer whose first u32 is another value
\* leaves programs, execution_timeline and prefetch_files as they were and
\* the loop goes on to the next file
C11_UnknownStep ==
    (pc = "loop" /\ idx < Len(pf_files) /\ pf_files[idx + 1] \in UnknownVersion)
    => /\ UNCHANGED <<programs, execution_timeline, prefetch_files>>
       /\ pc' = "loop"
       /\ idx' = idx + 1

\* C11: every record and aggregate has a version in {17, 23, 26, 30}; a
\* buffer whose first u32 is any other value gives no record, raises
\* nothing and leaves programs, timeline and prefetch_files unchanged
C11_SupportedVersionsOnly == []C11_VersionState /\ [][C11_UnknownStep]_vars

\* C11: buffers stamped 99 and 0x1001E have been processed in a run that
\* holds a record and an aggregate
C11_Witness ==
    /\ {"V99.pf", "W30.pf"} \subseteq Processed \cap UnknownVersion
    /\ Records # {}
    /\ DOMAIN programs # {}

\* the end of every fixed-offset read of a layout row: the name window, the
\* hash, the run count and each execution-time slot
ReadEnds(row) ==
    {row.name + row.name_len, row.hash + 4, row.run_count + 4}
    \cup {row.times + 8 * (i + 1) : i \in 0..(row.slots - 1)}

\* the files whose bytes reach the parser of a supported version and end
\* before one of its reads does
Truncated ==
    {f \in DOMAIN Pool :
        /\ Pool[f].readable
        /\ ~(HasSignature(f) /\ Declared(f) = None)
        /\ ~Mismatch[f]
        /\ Len(Contents[f]) >= 4
        /\ Supported(UnpackI(Contents[f], 0)[1])
        /\ \E e \in ReadEnds(LayoutRow(UnpackI(Contents[f], 0)[1][2])) :
               Len(Contents[f]) < e}

\* the reads that a truncated file is too short for
CutReads ==
    [f \in Truncated |->
        {e \in ReadEnds(LayoutRow(UnpackI(Contents[f], 0)[1][2])) : Len(Contents[f]) < e}]

\* C12, state part: a processed truncated buffer has no record, no timeline
\* entry and no place in an aggregate, and every processed buffer that is
\* long enough has its record
C12_TruncatedState ==
    /\ \A f \in Processed \cap Truncated :
           /\ \A r \in Records : r.filename # f
           /\ \A i \in 1..Len(execution_timeline) :
                  execution_timeline[i].prefetch_file # f
           /\ \A n \in DOMAIN programs : f \notin Range(programs[n].prefetch_files)
    /\ \A f \in Processed \cap LongBuffers : \E r \in Records : r.filename = f
    /\ pc = "done" => idx = Len(pf_files)

\* C12, step part: processing a truncated buffer changes none of programs,
\* execution_timeline and prefetch_files and the loop goes on
C12_TruncatedStep ==
    (pc = "loop" /\ idx < Len(pf_files) /\ pf_files[idx + 1] \in Truncated)
    => /\ UNCHANGED <<programs, execution_timeline, prefetch_files>>
       /\ pc' = "loop"
       /\ idx' = idx + 1

\* C12: a buffer of a supported version that is too short for a
\* fixed-offset read of its layout gives no record at all, the failure
\* touches that file only and the batch continues
C12_TruncatedRejected == []C12_TruncatedState /\ [][C12_TruncatedStep]_vars

\* C12: a run that processed a buffer cut in its hash, a buffer cut in its
\* run count only and a complete buffer after them, the pool holding
\* buffers cut in the name window, in the hash, in an execution-time slot
\* and in the run count
C12_Witness ==
    /\ pc = "done"
    /\ \E f \in Processed \cap Truncated :
           LayoutRow(17).hash + 4 \in CutReads[f]
    /\ \E f \in Processed \cap Truncated :
           CutReads[f] = {LayoutRow(26).run_count + 4}
    /\ \E i \in 1..Len(pf_files) :
           /\ pf_files[i] \in LongBuffers
           /\ \E j \in 1..(i - 1) : pf_files[j] \in Truncated
    /\ \E f \in Truncated : Len(Contents[f]) < LayoutRow(17).hash
    /\ \E f \in Truncated : /\ Len(Contents[f]) >= LayoutRow(23).hash
                              /\ LayoutRow(23).hash + 4 \in CutReads[f]
    /\ \E f \in Truncated : /\ Len(Contents[f]) >= LayoutRow(30).times
                              /\ LayoutRow(30).times + 8 \in CutReads[f]

\* how often an entry occurs in a timeline
Occurrences(timeline, e) == Cardinality({i \in 1..Len(timeline) : timeline[i] = e})

\* C15, state part: after analyze() has returned, no entry of the timeline
\* is later than an entry before it, and none is as late when all
\* timestamps differ
C15_Ordered ==
    pc = "done" =>
        /\ \A i, j \in 1..Len(execution_timeline) :
               i < j => LimbLeq(execution_timeline[j].timestamp,
                                execution_timeline[i].timestamp)
        /\ (\A i, j \in 1..Len(execution_timeline) :
                i # j => execution_timeline[i].timestamp # execution_timeline[j].timestamp)
           => \A i, j \in 1..Len(execution_timeline) :
                  i < j => LimbLess(execution_timeline[j].timestamp,
                                    execution_timeline[i].timestamp)

\* C15, step part: while files are processed the timeline only grows at
\* its end; the step that ends the loop is taken after the last file and
\* only reorders the entries; nothing changes the timeline afterwards
C15_AppendThenSort ==
    /\ (pc = "loop" /\ pc' = "loop") =>
           /\ Len(execution_timeline') >= Len(execution_timeline)
           /\ SubSeq(execution_timeline', 1, Len(execution_timeline)) = execution_timeline
    /\ (pc = "loop" /\ pc' = "done") =>
           /\ idx = Len(pf_files)
           /\ Len(execution_timeline') = Len(execution_timeline)
           /\ \A e \in Range(execution_timeline) \cup Range(execution_timeline') :
                  Occurrences(execution_timeline', e) = Occurrences(execution_timeline, e)
    /\ pc \in {"start", "done", "raised"} => execution_timeline' = execution_timeline

\* C15: when analyze() returns, execution_timeline is ordered by timestamp,
\* non-increasing (strictly decreasing when all timestamps differ); entries
\* are only appended while files are processed and the sort happens once,
\* after the last file
C15_TimelineSorted == []C15_Ordered /\ [][C15_AppendThenSort]_vars

\* C15: analyze() has returned a timeline of at least three entries from
\* two files or more, with two equal timestamps, that the loop had built
\* in another order
C15_Witness ==
    /\ pc = "done"
    /\ Len(execution_timeline) >= 3
    /\ Cardinality({execution_timeline[i].prefetch_file :
                        i \in 1..Len(execution_timeline)}) >= 2
    /\ \E i, j \in 1..Len(execution_timeline) :
           i # j /\ execution_timeline[i].timestamp = execution_timeline[j].timestamp
    /\ execution_timeline # TimelineOf(pf_files, Len(pf_files))

\* C15: analyze() has returned a timeline of three distinct timestamps
C15_WitnessDistinct ==
    /\ pc = "done"
    /\ Len(execution_timeline) >= 3
    /\ \A i, j \in 1..Len(execution_timeline) :
           i # j => execution_timeline[i].timestamp # execution_timeline[j].timestamp
    /\ execution_timeline # TimelineOf(pf_files, Len(pf_files))

\* the sum of len(execution_times) over the records i.. of prefetch_files
RECURSIVE TimesFrom(_)
TimesFrom(i) ==
    IF i > Len(prefetch_files) THEN 0
    ELSE Len(prefetch_files[i].execution_times) + TimesFrom(i + 1)

\* how many entries of the timeline carry this timestamp, name and file
EntriesFor(t, name, file) ==
    Cardinality({i \in 1..Len(execution_timeline) :
                    /\ execution_timeline[i].timestamp = t
                    /\ execution_timeline[i].executable = name
                    /\ execution_timeline[i].prefetch_file = file})

\* C17: during and after the loop the timeline holds, for every record and
\* every timestamp of its execution_times, as many entries (timestamp,
\* executable name, file name) as the timestamp occurs in the list, and no
\* other entry; its length is the sum of len(execution_times) over
\* prefetch_files
C17_TimelineComplete ==
    /\ Len(execution_timeline) = TimesFrom(1)
    /\ \A r \in Records :
           \A t \in Range(r.execution_times) :
               EntriesFor(t, r.executable_name, r.filename) =
                   Cardinality({k \in 1..Len(r.execution_times) : r.execution_times[k] = t})
    /\ \A i \in 1..Len(execution_timeline) :
           /\ execution_timeline[i].type = "execution"
           /\ \E r \in Records :
                  /\ r.filename = execution_timeline[i].prefetch_file
                  /\ r.executable_name = execution_timeline[i].executable
                  /\ execution_timeline[i].timestamp \in Range(r.execution_times)

\* C17: analyze() has returned with a record without execution times, a
\* record with one and a record whose list holds a timestamp twice
C17_Witness ==
    /\ pc = "done"
    /\ \E r \in Records : r.execution_times = <<>>
    /\ \E r \in Records : Len(r.execution_times) = 1
    /\ \E r \in Records :
           \E j, k \in 1..Len(r.execution_times) :
               j # k /\ r.execution_times[j] = r.execution_times[k]
    /\ Len(execution_timeline) >= 4

\* the files whose bytes start with MAM\x04
SignatureFiles == {f \in DOMAIN Pool : HasSignature(f)}

\* the files with the signature that give no decoded buffer: the header is
\* cut, the output length differs from the declared size, or the output is
\* empty
DecodeFailed ==
    {f \in SignatureFiles : Declared(f) = None \/ Mismatch[f] \/ Contents[f] = <<>>}

\* C18, state part: compressed_count counts the processed files with the
\* signature, decompression_failed holds each of them whose decoding
\* failed once and nothing else, and is no longer than compressed_count;
\* a processed file without the signature that is long enough has the
\* record of its own bytes
C18_CountersState ==
    /\ compressed_count = Cardinality(Processed \cap SignatureFiles)
    /\ \A f \in Processed \cap DecodeFailed :
           Cardinality({i \in 1..Len(decompression_failed) :
                           decompression_failed[i] = f}) = 1
    /\ Range(decompression_failed) = Processed \cap DecodeFailed
    /\ Len(decompression_failed) <= compressed_count
    /\ \A f \in (Processed \cap LongBuffers) \ SignatureFiles :
           \E r \in Records :
               /\ r.filename = f
               /\ <<r.version, r.executable_name, r.prefetch_hash, r.run_count,
                     r.execution_times>>
                  = <<Expected[f].version, Expected[f].executable_name,
                      Expected[f].prefetch_hash, Expected[f].run_count,
                      Expected[f].execution_times>>

\* C18, step part: a file without the signature changes neither counter
\* and is not handed to _decompress_mam; a file with it adds one to
\* compressed_count
C18_CountersStep ==
    (pc = "loop" /\ idx < Len(pf_files)) =>
        IF pf_files[idx + 1] \in SignatureFiles
        THEN compressed_count' = compressed_count + 1
        ELSE UNCHANGED <<compressed_count, decompression_failed, mam_calls>>

\* C18: compressed_count is the number of processed files that start with
\* MAM\x04, decoded or not; decompression_failed holds the name of each
\* of them whose decoding failed, once; len(decompression_failed) <=
\* compressed_count; a file without the signature changes neither and its
\* bytes reach the record parser unchanged
C18_CompressedCounters == []C18_CountersState /\ [][C18_CountersStep]_vars

\* C18: a run has processed a file without the signature that left a
\* record, a MAM file that was decoded and a MAM file that was not
C18_Witness ==
    /\ pc = "done"
    /\ compressed_count = 2
    /\ Len(decompression_failed) = 1
    /\ \E r \in Records : r.filename \in SignatureFiles
    /\ \E r \in Records : r.filename \notin SignatureFiles

\* C18: a run has processed MAM files whose decoding failed in three ways:
\* a cut header, a size mismatch and an empty output
C18_WitnessFailures ==
    /\ pc = "done"
    /\ compressed_count = 3
    /\ Len(decompression_failed) = 3
    /\ \E f \in Processed \cap DecodeFailed : Declared(f) = None
    /\ \E f \in Processed \cap DecodeFailed : Mismatch[f]
    /\ \E f \in Processed \cap DecodeFailed :
           Declared(f) # None /\ ~Mismatch[f] /\ Contents[f] = <<>>

(***************************************************************************)
(* analyze(progress_callback) with a callback that may raise at any of its *)
(* invocations (specification SpecCallback), over the directories made of  *)
(* CallbackPool.                                                           *)
(***************************************************************************)
CallbackPool == {"A17.pf", "A26.pf", "B30.pf", "V99.pf", "MBAD.pf"}

InitCallback ==
    /\ enumerable = TRUE
    /\ pf_files \in {q \in FileSequences(MaxFiles) :
                        /\ \A i, j \in 1..Len(q) : i # j => q[i] # q[j]
                        /\ Range(q) \subseteq CallbackPool}
    /\ pc = "start"
    /\ probe = None
    /\ FreshAnalyzer
    /\ tracker = NewTracker(TRUE)

SpecCallback == InitCallback /\ [][Next]_vars

\* C16: whatever the callback does at each of its invocations, no exception
\* leaves the tracker or analyze(), every file is processed, and programs
\* and the timeline are those that the files give by themselves, which is
\* what the runs whose callback never raises return
C16_CallbackIsolated ==
    /\ pc # "raised"
    /\ ~tracker.escaped
    /\ pc = "loop" =>
           /\ programs = ProgramsOf(pf_files, idx)
           /\ execution_timeline = TimelineOf(pf_files, idx)
    /\ pc = "done" =>
           /\ idx = Len(pf_files)
           /\ programs = ProgramsOf(pf_files, Len(pf_files))
           /\ execution_timeline = SortTimeline(TimelineOf(pf_files, Len(pf_files)))
           /\ Len(prefetch_files) =
                  Cardinality({i \in 1..Len(pf_files) : Parsed[pf_files[i]].rec # None})
           /\ tracker.state = "completed"

\* C16: analyze() has returned records and a timeline after a run in which
\* the callback raised at three invocations or more and returned at one
C16_Witness ==
    /\ pc = "done"
    /\ tracker.callback_errors >= 3
    /\ tracker.callback_count >= 1
    /\ Len(prefetch_files) >= 2
    /\ execution_timeline # <<>>

\* C16: analyze() has returned after a run in which the callback raised at
\* every invocation
C16_WitnessAlways ==
    /\ pc = "done"
    /\ tracker.callback_errors >= 4
    /\ tracker.callback_count = 0
    /\ Len(prefetch_files) >= 2

(***************************************************************************)
(* Direct calls of _filetime_to_datetime (specification SpecFiletime)      *)
(***************************************************************************)
\* 64-bit values around zero, the present, the last datetime and 2^64
FiletimeSamples ==
    {<<a, b, c, d>> : a \in {0, 472, 941, 65535}, b \in {0, 33483, 41635},
                      c \in {0, 5369, 39712}, d \in {0, 1, 5, 10, 15, 32778, 40950}}

InitFiletime ==
    /\ probe \in {[filetime |-> F] : F \in FiletimeSamples}
    /\ pc = "start"
    /\ enumerable = TRUE
    /\ pf_files = <<>>
    /\ Fresh

ConvertFiletime ==
    /\ pc = "start"
    /\ probe' = [filetime |-> probe.filetime,
                 result   |-> FiletimeToDatetime(probe.filetime)]
    /\ pc' = "done"
    /\ UNCHANGED <<enumerable, pf_files, idx, prefetch_files, execution_timeline,
                   programs, compressed_count, decompression_failed, mam_calls,
                   tracker>>

NextFiletime == ConvertFiletime

SpecFiletime == InitFiletime /\ [][NextFiletime]_vars

\* t microseconds are filetime / 10 microseconds up to rounding:
\* |10 * t - filetime| < 10
TenthOf(t, filetime) ==
    /\ LimbLess(MulSmall(t, 10), AddSmall(filetime, 10))
    /\ LimbLess(filetime, AddSmall(MulSmall(t, 10), 10))

\* C9: the converter returns absent for zero only, and for every non-zero
\* FILETIME the timestamp of the epoch plus filetime / 10 microseconds
C9_ExactConversion ==
    pc = "done" =>
        IF probe.filetime = FtZero THEN probe.result = None
        ELSE probe.result # None /\ TenthOf(probe.result, probe.filetime)

(***************************************************************************)
(* A reference LZNT1 compressor feeding _decompress_mam (specification     *)
(* SpecCodec).  The compressor follows the LZNT1 format: one chunk, a flag *)
(* byte per group of eight items, a literal byte or a 16-bit token         *)
(* (distance - 1, length - 3) whose split into distance and length bits    *)
(* depends on the number of bytes of the chunk already produced; it takes  *)
(* the longest match of at least three bytes, the nearest among equals,    *)
(* and stores the chunk uncompressed when compression does not shorten it. *)
(***************************************************************************)
MaxPeriod == 33

\* n bytes cycling through 1..p
Cycle(p, n) == [k \in 1..n |-> ((k - 1) % p) + 1]

Plaintexts == {Cycle(p, p + 3) : p \in 1..MaxPeriod} \cup
              {Cycle(p, 2 * p + 2) : p \in 1..MaxPeriod}

\* the length bits of a token when u >= 1 bytes of the chunk are out:
\* 12, less one for every doubling of u - 1 from 16 on
RECURSIVE RefLengthBitsFrom(_, _)
RefLengthBitsFrom(i, bits) ==
    IF i >= 16 THEN RefLengthBitsFrom(i \div 2, bits - 1) ELSE bits

RefLengthBits(u) == RefLengthBitsFrom(u - 1, 12)

\* how many bytes of P from offset i on repeat the bytes d before them
MatchRun(P, i, d) ==
    CHOOSE L \in 0..(Len(P) - i) :
        /\ \A k \in 0..(L - 1) : P[i + k + 1] = P[i - d + k + 1]
        /\ L = Len(P) - i \/ P[i + L + 1] # P[i - d + L + 1]

\* the length a token at offset i can carry for distance d
RefLength(P, i, d) == Min2(MatchRun(P, i, d), Pow2(RefLengthBits(i)) + 2)

\* the best of two distances: the longer match, the nearer one among equals
Better(P, i, d, e) ==
    IF RefLength(P, i, e) > RefLength(P, i, d) THEN e ELSE d

\* the best distance in lo..hi
RECURSIVE BestDistance(_, _, _, _)
BestDistance(P, i, lo, hi) ==
    IF lo = hi THEN lo
    ELSE Better(P, i, BestDistance(P, i, lo, (lo + hi) \div 2),
                      BestDistance(P, i, (lo + hi) \div 2 + 1, hi))

\* the item at offset i, d being the best distance: a token or a literal
RefItemAt(P, i, d) ==
    IF RefLength(P, i, d) >= 3
    THEN [flag |-> 1, size |-> RefLength(P, i, d),
          bytes |-> U16Bytes((d - 1) * Pow2(RefLengthBits(i)) + RefLength(P, i, d) - 3)]
    ELSE [flag |-> 0, size |-> 1, bytes |-> <<P[i + 1]>>]

RefItem(P, i) ==
    IF i = 0 THEN [flag |-> 0, size |-> 1, bytes |-> <<P[1]>>]
    ELSE RefItemAt(P, i, BestDistance(P, i, 1, Min2(i, Pow2(16 - RefLengthBits(i)))))

\* the flag byte of the items k.. of a group
RECURSIVE FlagByte(_, _)
FlagByte(group, k) ==
    IF k > Len(group) THEN 0
    ELSE group[k].flag * Pow2(k - 1) + FlagByte(group, k + 1)

RECURSIVE GroupBytes(_, _)
GroupBytes(group, k) ==
    IF k > Len(group) THEN <<>> ELSE group[k].bytes \o GroupBytes(group, k + 1)

\* the body of a compressed chunk: groups of eight items behind a flag byte
RECURSIVE RefBody(_)
RefBody(items) ==
    IF items = <<>> THEN <<>>
    ELSE <<FlagByte(SubSeq(items, 1, Min2(8, Len(items))), 1)>>
         \o GroupBytes(SubSeq(items, 1, Min2(8, Len(items))), 1)
         \o RefBody(SubSeq(items, 9, Len(items)))

RefChunk(P, compressed_body) ==
    IF Len(compressed_body) < Len(P) THEN PackedChunk(compressed_body) ELSE RawChunk(P)

InitCodec ==
    /\ probe \in {[plain |-> P, pos |-> 0, items |-> <<>>] : P \in Plaintexts}
    /\ pc = "start"
    /\ enumerable = TRUE
    /\ pf_files = <<>>
    /\ Fresh

\* the reference compressor emits the item at the current offset
AppendItem(item) ==
    probe' = [plain |-> probe.plain, pos |-> probe.pos + item.size,
              items |-> Append(probe.items, item)]

CompressItem ==
    /\ pc = "start"
    /\ probe.pos < Len(probe.plain)
    /\ AppendItem(RefItem(probe.plain, probe.pos))
    /\ UNCHANGED <<enumerable, pf_files, pc, idx, prefetch_files, execution_timeline,
                   programs, compressed_count, decompression_failed, mam_calls,
                   tracker>>

\* the chunk is closed and wrapped in a MAM container declaring len(plain)
SealStream ==
    /\ pc = "start"
    /\ probe.pos = Len(probe.plain)
    /\ probe' = [plain  |-> probe.plain,
                 stream |-> MamFile(ToU32(Len(probe.plain)),
                                    RefChunk(probe.plain, RefBody(probe.items)))]
    /\ pc' = "packed"
    /\ UNCHANGED <<enumerable, pf_files, idx, prefetch_files, execution_timeline,
                   programs, compressed_count, decompression_failed, mam_calls,
                   tracker>>

\* _decompress_mam on the stream
Decompress ==
    /\ pc = "packed"
    /\ probe' = [plain  |-> probe.plain,
                 stream |-> probe.stream,
                 output |-> DecompressMam(probe.stream)]
    /\ pc' = "done"
    /\ UNCHANGED <<enumerable, pf_files, idx, prefetch_files, execution_timeline,
                   programs, compressed_count, decompression_failed, mam_calls,
                   tracker>>

NextCodec == CompressItem \/ SealStream \/ Decompress

SpecCodec == InitCodec /\ [][NextCodec]_vars

\* C4: the MAM decoder accepts the stream that the reference compressor
\* produces for a plaintext and returns exactly that plaintext
C4_RoundTrip == pc = "done" => probe.output = <<probe.plain>>

(***************************************************************************)
(* Direct calls of _lznt1_decompress, one loop pass at a time              *)
(* (specification SpecEngine).  The payloads are every byte string of up   *)
(* to MaxPayload bytes over PayloadBytes (chunk headers of both kinds,     *)
(* the zero header, flag bytes, tokens, cut anywhere) and longer streams   *)
(* whose tokens are decoded at output lengths on both sides of 0x10, 0x20  *)
(* and 0x1000.                                                             *)
(***************************************************************************)
MaxPayload == 5

PayloadBytes == {0, 3, 176, 255}

RECURSIVE ByteStrings(_)
ByteStrings(n) ==
    IF n = 0 THEN {<<>>}
    ELSE LET shorter == ByteStrings(n - 1)
         IN  shorter \cup {Append(q, b) : q \in {x \in shorter : Len(x) = n - 1},
                                           b \in PayloadBytes}

\* literals 1 2 3, then tokens decoded at n = 3, 20, 30, 2080, 3106 and
\* 4132, then a literal
KRanges == <<17, 176, 248, 1, 2, 3, 14, 32, 7, 152, 255, 15, 255, 19, 255, 19,
             1, 255, 249, 9>>

\* tokens decoded at n = 1 and 15
KEdge15 == <<6, 176, 6, 7, 11, 0, 52, 18, 8>>

\* tokens decoded at n = 1, 16, 31 and 1062
KEdge16 == <<9, 176, 30, 7, 12, 0, 12, 8, 4, 12, 65, 4>>

\* tokens decoded at n = 2 and 32
KEdge32 == <<7, 176, 12, 5, 6, 27, 16, 3, 4, 1>>

\* tokens decoded at n = 1, 4095 and 4099
KEdge4095 == <<7, 176, 14, 5, 251, 15, 1, 8, 35, 1>>

\* tokens decoded at n = 1 and 4096
KEdge4096 == <<5, 176, 6, 5, 252, 15, 35, 1>>

\* a token whose distance is beyond the start of the output
KBadDistance == <<5, 176, 4, 5, 6, 1, 64, 7>>

\* three chunks and no zero header
KChunks == RawChunk(<<1, 2, 3>>) \o PackedChunk(<<0, 4, 5>>) \o RawChunk(<<6>>)

\* two uncompressed chunks, a zero header, and a chunk after it
KZeroHeader == RawChunk(<<1, 2>>) \o RawChunk(<<3>>) \o <<0, 0>> \o RawChunk(<<9>>)

\* an uncompressed chunk that declares four bytes and holds two
KShortChunk == <<3, 48, 7, 8>>

\* a compressed chunk of two bytes whose only token starts on its last
\* byte, followed by an uncompressed chunk holding 9
KStraddle == <<1, 176, 1, 0>> \o RawChunk(<<9>>)

Payloads ==
    ByteStrings(MaxPayload)
    \cup {KRanges, KEdge15, KEdge16, KEdge32, KEdge4095, KEdge4096, KBadDistance,
          KChunks, KZeroHeader, KShortChunk, KStraddle}

Targets == {0, 2, 20, 5000, 70000}

InitEngine ==
    /\ probe \in {[data |-> d, size |-> ToU32(t), st |-> EngineStart] :
                      d \in Payloads, t \in Targets}
    /\ pc = "start"
    /\ enumerable = TRUE
    /\ pf_files = <<>>
    /\ Fresh

EnginePass(st) ==
    /\ pc = "start"
    /\ probe' = [probe EXCEPT !.st = st]
    /\ UNCHANGED <<enumerable, pf_files, pc, idx, prefetch_files, execution_timeline,
                   programs, compressed_count, decompression_failed, mam_calls,
                   tracker>>

EngineOuter ==
    /\ probe.st.mode = "outer"
    /\ EnginePass(OuterPass(probe.data, probe.size, probe.st))

EngineFlag ==
    /\ probe.st.mode = "inner"
    /\ EnginePass(FlagPass(probe.data, probe.size, probe.st))

EngineToken ==
    /\ probe.st.mode = "tokens"
    /\ EnginePass(TokenPass(probe.data, probe.size, probe.st))

\* line 365: return bytes(output[:uncompressed_size])
EngineReturn ==
    /\ pc = "start"
    /\ probe.st.mode = "done"
    /\ probe' = [data |-> probe.data, size |-> probe.size, st |-> probe.st,
                 result |-> TakeSize(probe.st.output, probe.size)]
    /\ pc' = "done"
    /\ UNCHANGED <<enumerable, pf_files, idx, prefetch_files, execution_timeline,
                   programs, compressed_count, decompression_failed, mam_calls,
                   tracker>>

NextEngine == EngineOuter \/ EngineFlag \/ EngineToken \/ EngineReturn

SpecEngine == InitEngine /\ [][NextEngine]_vars

\* the target size as a number
TargetOf(size) == size[1] * LimbBase + size[2]

\* C13: the engine returns at most as many bytes as the target size, and
\* they are the first bytes of what the loops produced
C13_OutputWithinTarget ==
    pc = "done" =>
        /\ Len(probe.result) <= TargetOf(probe.size)
        /\ probe.result = SubSeq(probe.st.output, 1, Len(probe.result))
        /\ Len(probe.result) = Min2(Len(probe.st.output), TargetOf(probe.size))

\* C13: the engine has returned after its last back-reference carried the
\* output from below the target to beyond it; an uncompressed chunk of
\* three bytes is cut to a target of two
C13_Witness ==
    /\ pc = "done"
    /\ probe.st.tokens # <<>>
    /\ probe.st.tokens[Len(probe.st.tokens)].n < TargetOf(probe.size)
    /\ Len(probe.st.output) > TargetOf(probe.size)
    /\ Len(probe.result) = TargetOf(probe.size)
    /\ Lznt1Run(KChunks, ToU32(2), Lznt1Start, Lznt1Fuel(KChunks)).output = <<1, 2, 3>>
    /\ Lznt1Decompress(KChunks, ToU32(2)) = <<1, 2>>

\* the loop that a pass leaves when it ends its own loop
ExitOf(mode) ==
    IF mode = "outer" THEN "done" ELSE IF mode = "inner" THEN "outer" ELSE "inner"

\* the output has reached the target size, or the input is exhausted
Exhausted ==
    \/ ~SizeLess(Len(probe.st.output), probe.size)
    \/ probe.st.pos >= Len(probe.data)

\* C14, step part: a pass of the outer loop or of the inner loop either
\* leaves its loop or moves the read position forward; no pass moves it
\* back; once the output has reached the target or the input is exhausted
\* every pass leaves its loop without reading or writing
C14_PassStep ==
    (pc = "start" /\ probe.st.mode # "done") =>
        /\ probe.st.mode \in {"outer", "inner"} =>
               \/ probe'.st.mode = ExitOf(probe.st.mode)
               \/ probe'.st.pos > probe.st.pos
        /\ probe'.st.pos >= probe.st.pos
        /\ Exhausted =>
               /\ probe'.st.mode = ExitOf(probe.st.mode)
               /\ probe'.st.pos = probe.st.pos
               /\ probe'.st.output = probe.st.output

\* what is left to do: the input not yet read, then the loops still open
\* (0 when the call has returned)
Remaining ==
    IF pc = "done" THEN 0
    ELSE 4 * (IF probe.st.pos < Len(probe.data) THEN Len(probe.data) - probe.st.pos
              ELSE 0)
         + (IF probe.st.mode = "tokens" THEN 4 ELSE IF probe.st.mode = "inner" THEN 3
            ELSE IF probe.st.mode = "outer" THEN 2 ELSE 1)

\* C14, progress part: every step of the engine, the return included,
\* strictly decreases what is left to do
C14_Progress == Remaining' < Remaining

\* C14, result part: until it has returned the engine can always take a
\* step; the engine as a function returns what the loops return
C14_Returns ==
    /\ pc = "start" => probe.st.mode \in {"outer", "inner", "tokens", "done"}
    /\ pc \in {"start", "done"}
    /\ pc = "done" => probe.result = Lznt1Decompress(probe.data, probe.size)

\* C14: the engine terminates on every payload: every pass of the outer
\* and of the inner loop strictly advances the read position or leaves
\* its loop, both loops stop as soon as the output has reached the target
\* or the input is exhausted; what is left to do is a natural number that
\* every step decreases, so the call returns after finitely many steps
C14_EngineTerminates ==
    /\ [][C14_PassStep]_vars
    /\ [][C14_Progress]_vars
    /\ []C14_Returns

\* C14: the engine has returned for a payload of three chunks without a
\* zero header, stopped by the end of the input below the target
C14_Witness ==
    /\ pc = "done"
    /\ probe.data = KChunks
    /\ probe.st.pos >= Len(probe.data)
    /\ SizeLess(Len(probe.st.output), probe.size)
    /\ probe.result = <<1, 2, 3, 4, 5, 6>>

\* a step of the engine that decodes a back-reference token
TokenDecoded ==
    /\ pc = "start"
    /\ probe.st.mode = "tokens"
    /\ Len(probe'.st.tokens) = Len(probe.st.tokens) + 1

\* the token just decoded, as the history holds it
Decoded == probe'.st.tokens[Len(probe'.st.tokens)]

\* the split of the 16 bits as the claim states it
StatedLengthBits(n) ==
    IF n < 16 THEN 4 ELSE IF n < 32 THEN 5 ELSE IF n < 4096 THEN 6 ELSE 12

\* the split with the two roles exchanged
ExchangedLengthBits(n) ==
    IF n < 16 THEN 12 ELSE IF n < 32 THEN 11 ELSE IF n < 4096 THEN 10 ELSE 4

\* the token at the read position is decoded with the output length n of
\* that moment, and gives this length, this distance and as many new bytes
SplitBy(length_bits) ==
    /\ Decoded.n = Len(probe.st.output)
    /\ Decoded.token = UnpackH(probe.data, probe.st.pos)
    /\ Decoded.match_length = (Decoded.token % Pow2(length_bits)) + 3
    /\ Decoded.match_distance = (Decoded.token \div Pow2(length_bits)) + 1
    /\ Len(probe'.st.output) = Len(probe.st.output) + Decoded.match_length

\* C19 as stated: a token decoded at output length n has 4 length bits if
\* n < 0x10, 5 if n < 0x20, 6 if n < 0x1000 and 12 otherwise, with
\* match_length = (token & length_mask) + 3 and match_distance =
\* (token >> length_bits) + 1
C19_SplitAsStated ==
    [][TokenDecoded => SplitBy(StatedLengthBits(Len(probe.st.output)))]_vars

\* C19 amended: a token decoded at output length n has 12 length bits if
\* n < 0x10, 11 if n < 0x20, 10 if n < 0x1000 and 4 otherwise (the
\* remaining 4, 5, 6 or 12 bits being distance bits), with match_length =
\* (token & length_mask) + 3 and match_distance = (token >> length_bits)
\* + 1; n is the output length at that moment
C19_SplitExchanged ==
    [][TokenDecoded => SplitBy(ExchangedLengthBits(Len(probe.st.output)))]_vars

\* C19: one call has decoded tokens at output lengths below 0x10, below
\* 0x20, below 0x1000 and beyond, whose length and distance differ from
\* those of the split as stated
C19_Witness ==
    /\ \E i \in 1..Len(probe.st.tokens) : probe.st.tokens[i].n < 16
    /\ \E i \in 1..Len(probe.st.tokens) :
           16 <= probe.st.tokens[i].n /\ probe.st.tokens[i].n < 32
    /\ \E i \in 1..Len(probe.st.tokens) :
           32 <= probe.st.tokens[i].n /\ probe.st.tokens[i].n < 4096
    /\ \E i \in 1..Len(probe.st.tokens) : probe.st.tokens[i].n >= 4096
    /\ \A i \in 1..Len(probe.st.tokens) :
           probe.st.tokens[i].match_distance #
               (probe.st.tokens[i].token \div Pow2(StatedLengthBits(probe.st.tokens[i].n))) + 1

\* C20: a back-reference whose distance d is within the n bytes of the
\* output appends exactly match_length bytes to it, the i-th of them equal
\* to the byte at index n - d + i of the output as it grows, so that a
\* length beyond d repeats the last d bytes
C20_WindowCopyStep ==
    (TokenDecoded /\ Decoded.match_distance <= Len(probe.st.output)) =>
        /\ Len(probe'.st.output) = Len(probe.st.output) + Decoded.match_length
        /\ SubSeq(probe'.st.output, 1, Len(probe.st.output)) = probe.st.output
        /\ \A i \in 0..(Decoded.match_length - 1) :
               probe'.st.output[Len(probe.st.output) + i + 1] =
                   probe'.st.output[Len(probe.st.output) - Decoded.match_distance + i + 1]
        /\ \A i \in Decoded.match_distance..(Decoded.match_length - 1) :
               probe'.st.output[Len(probe.st.output) + i + 1] =
                   probe'.st.output[Len(probe.st.output) + i + 1 - Decoded.match_distance]

C20_WindowCopy == [][C20_WindowCopyStep]_vars

\* C20: one call has decoded a back-reference longer than its distance
\* (distance 3 of the periodic output 1 2 3, length 17) and one no longer
\* than its distance, both within the output
C20_Witness ==
    /\ \E i \in 1..Len(probe.st.tokens) :
           /\ probe.st.tokens[i].match_distance <= probe.st.tokens[i].n
           /\ probe.st.tokens[i].match_distance = 3
           /\ probe.st.tokens[i].match_length = 17
    /\ \E i \in 1..Len(probe.st.tokens) :
           /\ probe.st.tokens[i].match_distance <= probe.st.tokens[i].n
           /\ probe.st.tokens[i].match_length <= probe.st.tokens[i].match_distance
    /\ Len(probe.st.output) >= 30
    /\ SubSeq(probe.st.output, 1, 20) =
           <<1, 2, 3, 1, 2, 3, 1, 2, 3, 1, 2, 3, 1, 2, 3, 1, 2, 3, 1, 2>>

\* C21, step part: a back-reference whose distance exceeds the length n of
\* the output keeps the n bytes, appends exactly match_length bytes, all
\* zero, and leaves the engine in the same chunk at the next bit of the
\* same flag byte, two bytes further in the input
C21_ZeroFillStep ==
    (TokenDecoded /\ Decoded.match_distance > Len(probe.st.output)) =>
        /\ Len(probe'.st.output) = Len(probe.st.output) + Decoded.match_length
        /\ SubSeq(probe'.st.output, 1, Len(probe.st.output)) = probe.st.output
        /\ \A i \in (Len(probe.st.output) + 1)..Len(probe'.st.output) :
               probe'.st.output[i] = 0
        /\ probe'.st.mode = "tokens"
        /\ probe'.st.bit = probe.st.bit + 1
        /\ probe'.st.pos = probe.st.pos + 2
        /\ probe'.st.chunk_end = probe.st.chunk_end
        /\ probe'.st.flag_byte = probe.st.flag_byte

\* C21: a back-reference beyond the start of the output yields match_length
\* zero bytes after the output produced so far, and decoding goes on with
\* the rest of the chunk
C21_InvalidDistanceZeroFill == [][C21_ZeroFillStep]_vars

\* C21: the call has returned 5 6, four zero bytes for a back-reference of
\* distance 5 and length 4 decoded at output length 2, and the literal 7
\* that follows it in the chunk
C21_Witness ==
    /\ pc = "done"
    /\ probe.data = KBadDistance
    /\ Len(probe.st.tokens) = 1
    /\ probe.st.tokens[1].n = 2
    /\ probe.st.tokens[1].match_distance = 5
    /\ probe.st.tokens[1].match_length = 4
    /\ probe.result = <<5, 6, 0, 0, 0, 0, 7>>

\* a pass of the outer loop that reads a chunk header
HeaderRead ==
    /\ pc = "start"
    /\ probe.st.mode = "outer"
    /\ probe.st.pos < Len(probe.data)
    /\ SizeLess(Len(probe.st.output), probe.size)
    /\ probe.st.pos + 2 <= Len(probe.data)

\* the header at the read position, as a little-endian 16-bit value
HeaderValue == probe.data[probe.st.pos + 1] + 256 * probe.data[probe.st.pos + 2]

HeaderChunkSize == (HeaderValue % 4096) + 1

\* the payload bytes that follow the header
BytesAfterHeader == Len(probe.data) - (probe.st.pos + 2)

\* the pass appends the `count` bytes that follow the header, verbatim, and
\* moves the read position by chunk_size beyond the header
VerbatimCopy(count) ==
    /\ Len(probe'.st.output) = Len(probe.st.output) + count
    /\ SubSeq(probe'.st.output, 1, Len(probe.st.output)) = probe.st.output
    /\ \A i \in 1..count :
           probe'.st.output[Len(probe.st.output) + i] = probe.data[probe.st.pos + 2 + i]
    /\ probe'.st.pos = probe.st.pos + 2 + HeaderChunkSize
    /\ probe'.st.mode = "outer"

\* a zero header ends the decoding with the output as it is; once the
\* decoding has ended the output no longer changes, and the call returns
\* its first bytes
ZeroHeaderStops ==
    /\ (HeaderRead /\ HeaderValue = 0) =>
           /\ probe'.st.mode = "done"
           /\ probe'.st.output = probe.st.output
    /\ (pc = "start" /\ probe.st.mode = "done") =>
           /\ probe'.st.output = probe.st.output
           /\ pc' = "done"
           /\ probe'.result = SubSeq(probe.st.output, 1, Len(probe'.result))

UncompressedHeader == HeaderRead /\ HeaderValue # 0 /\ (HeaderValue \div 32768) % 2 = 0

\* C22 as stated: a non-zero header with bit 0x8000 clear makes the engine
\* append exactly chunk_size = (H & 0x0FFF) + 1 following payload bytes
\* verbatim and advance the read position by chunk_size; a zero header
\* stops the decoding
C22_ChunkSizeBytesCopied ==
    [][(UncompressedHeader => VerbatimCopy(HeaderChunkSize)) /\ ZeroHeaderStops]_vars

\* C22 amended: a non-zero header with bit 0x8000 clear makes the engine
\* append the following payload bytes verbatim, chunk_size = (H & 0x0FFF)
\* + 1 of them or all that remain if fewer than chunk_size remain, and
\* advance the read position by chunk_size; a zero header stops the
\* decoding, so no payload byte after it contributes to the output
C22_AvailableBytesCopied ==
    [][(UncompressedHeader => VerbatimCopy(Min2(HeaderChunkSize, BytesAfterHeader)))
       /\ ZeroHeaderStops]_vars

\* C22: the call has returned 1 2 3 for two whole uncompressed chunks
\* followed by a zero header and a further chunk holding 9, which is not
\* in the output; a chunk that declares four bytes and holds two yields 7 8
C22_Witness ==
    /\ pc = "done"
    /\ probe.data = KZeroHeader
    /\ probe.st.pos = 9
    /\ probe.result = <<1, 2, 3>>
    /\ SizeLess(Len(probe.result), probe.size)
    /\ Lznt1Decompress(KShortChunk, ToU32(20)) = <<7, 8>>

\* C23: while a compressed chunk is decoded the read position is at most
\* chunk_end, the end of the byte range the chunk header declares, so that
\* no byte at index >= chunk_end is consumed as part of the chunk and the
\* next chunk header is read from the declared boundary
C23_ReadsWithinChunk ==
    (pc = "start" /\ probe.st.mode \in {"inner", "tokens"}) =>
        probe.st.pos <= probe.st.chunk_end

\* the list holds no value twice
NoRepeat(seq) == \A i, j \in 1..Len(seq) : seq[i] = seq[j] => i = j

\* C24: in every state reached by merging records no aggregate's
\* execution_times holds the same timestamp twice, the first record merged
\* for a name included
C24_TimesDistinct == \A n \in DOMAIN programs : NoRepeat(programs[n].execution_times)

\* the list runs from the most recent time to the oldest
MostRecentFirst(times) ==
    \A i, j \in 1..Len(times) : i <= j => LimbLeq(times[j], times[i])

\* C25: every parsed record has at most 8 execution times (at most 1 for
\* versions 17 and 23), ordered most-recent-first, and its last_execution
\* is element 0 of them (none when there is none), the most recent
\* timestamp of the record
C25_RecordTimesOrdered ==
    \A r \in Records :
        /\ Len(r.execution_times) <= 8
        /\ r.version \in {17, 23} => Len(r.execution_times) <= 1
        /\ MostRecentFirst(r.execution_times)
        /\ r.last_execution =
               IF r.execution_times = <<>> THEN None ELSE r.execution_times[1]
        /\ r.execution_times # <<>> => r.last_execution = MaxTime(r.execution_times)

\* C26, state part: every record stored in prefetch_files is the record
\* that parsing its file gives: its execution_times, run_count and
\* last_execution (and every other field) are those it was created with
C26_RecordsAsParsed ==
    \A i \in 1..Len(prefetch_files) :
        /\ Parsed[prefetch_files[i].filename].rec # None
        /\ prefetch_files[i] = Parsed[prefetch_files[i].filename].rec[1]

\* C26, step part: no step changes a record already stored
C26_RecordsKeptStep ==
    /\ Len(prefetch_files') >= Len(prefetch_files)
    /\ SubSeq(prefetch_files', 1, Len(prefetch_files)) = prefetch_files

\* C26: a PrefetchRecord is never mutated after creation: after any
\* sequence of later merges into programs, those that add timestamps to
\* the aggregate seeded by the record included, every record stored in
\* prefetch_files has the execution_times, run_count and last_execution it
\* had when it was parsed
C26_RecordsImmutable == []C26_RecordsAsParsed /\ [][C26_RecordsKeptStep]_vars

\* C26: two records of one name are stored; the second has added a
\* timestamp to the aggregate seeded by the first and raised its
\* run_count, and the first record still holds its single timestamp
C26_Witness ==
    /\ Len(prefetch_files) >= 2
    /\ prefetch_files[1].executable_name = prefetch_files[2].executable_name
    /\ Len(prefetch_files[1].execution_times) = 1
    /\ Len(programs[prefetch_files[1].executable_name].execution_times) >= 2
    /\ programs[prefetch_files[1].executable_name].run_count # prefetch_files[1].run_count
    /\ programs[prefetch_files[1].executable_name].last_execution
           # prefetch_files[1].last_execution

\* the aggregates after merging the records from index i down to the first
RECURSIVE MergedBackwards(_, _)
MergedBackwards(records, i) ==
    IF i = 0 THEN EmptyPrograms
    ELSE AddToPrograms(MergedBackwards(records, i - 1), records[Len(records) + 1 - i])

\* C27: the aggregates reached by merging the records in the order of
\* processing agree with those of merging the same records in the reverse
\* order on every field other than the order of prefetch_files: name,
\* run_count, the execution times, first_execution, last_execution, the
\* files merged and version
C27_MergeOrderFree ==
    LET back == MergedBackwards(prefetch_files, Len(prefetch_files))
    IN  /\ DOMAIN back = DOMAIN programs
        /\ \A n \in DOMAIN programs :
               /\ SameAggregate(programs[n], back[n])
               /\ programs[n].name = back[n].name
               /\ Range(programs[n].prefetch_files) = Range(back[n].prefetch_files)
               /\ programs[n].version = back[n].version

\* the file names of the records of name n, in the order of processing
RECURSIVE FilesOf(_, _)
FilesOf(n, i) ==
    IF i = 0 THEN <<>>
    ELSE FilesOf(n, i - 1)
         \o (IF prefetch_files[i].executable_name = n
             THEN <<prefetch_files[i].filename>> ELSE <<>>)

RECURSIVE SumOfFiles(_)
SumOfFiles(names) ==
    IF names = {} THEN 0
    ELSE LET n == CHOOSE x \in names : TRUE
         IN  Len(programs[n].prefetch_files) + SumOfFiles(names \ {n})

\* C28: programs has exactly one aggregate per distinct executable_name
\* (exact, case-sensitive) among the parsed records; each aggregate lists
\* the file name of every record merged into it once, in processing order;
\* the lengths of these lists add up to len(self.prefetch_files), the
\* total_prefetch_files of the statistics
C28_OneAggregatePerName ==
    /\ DOMAIN programs = {r.executable_name : r \in Records}
    /\ \A n \in DOMAIN programs :
           /\ programs[n].name = n
           /\ programs[n].prefetch_files = FilesOf(n, Len(prefetch_files))
           /\ NoRepeat(programs[n].prefetch_files)
    /\ SumOfFiles(DOMAIN programs) = Len(prefetch_files)
    /\ GetStatistics.total_prefetch_files = Len(prefetch_files)
    /\ GetStatistics.total_programs = Cardinality({r.executable_name : r \in Records})

\* C28: three records are stored, two of the name "A" with a record of the
\* name "a" processed between them: two aggregates, the one of "A" listing
\* its two files in processing order
C28_Witness ==
    /\ Len(prefetch_files) = 3
    /\ prefetch_files[1].executable_name = NameA
    /\ prefetch_files[2].executable_name = NameLowerA
    /\ prefetch_files[3].executable_name = NameA
    /\ DOMAIN programs = {NameA, NameLowerA}
    /\ programs[NameA].prefetch_files =
           <<prefetch_files[1].filename, prefetch_files[3].filename>>
    /\ programs[NameLowerA].prefetch_files = <<prefetch_files[2].filename>>

\* C29: when analyze() has returned normally with a callback supplied, the
\* values passed to the callback start with 0, end with 100, never
\* decrease and lie in 0..100, whatever the number of files and whichever
\* updates the rate limit has skipped
C29_ProgressSequence ==
    (pc = "done" /\ tracker.callback) =>
        /\ Len(tracker.calls) >= 2
        /\ tracker.calls[1] = 0
        /\ tracker.calls[Len(tracker.calls)] = 100
        /\ \A i \in 1..Len(tracker.calls) :
               tracker.calls[i] >= 0 /\ tracker.calls[i] <= 100
        /\ \A i, j \in 1..Len(tracker.calls) :
               i <= j => tracker.calls[i] <= tracker.calls[j]

\* C29: analyze() has returned after three files; of the five updates
\* between start and completion the callback has seen those of the second
\* and third file, the others were skipped by the rate limit, and one
\* invocation has raised
C29_Witness ==
    /\ pc = "done"
    /\ tracker.callback
    /\ Len(pf_files) = 3
    /\ tracker.calls = <<0, 30, 50, 100>>
    /\ tracker.callback_errors = 1

(***************************************************************************)
(* ProgressTracker called from several threads (specification              *)
(* SpecTracker).  self._lock is a threading.Lock: it has no owner and is   *)
(* not reentrant, so acquire() waits while the lock is held, whichever     *)
(* thread holds it.  A thread is idle, or inside a call: `stack` holds the *)
(* calls it has entered (increment() calls update()), and pc tells whether *)
(* it waits at "with self._lock", runs the body under the lock, or leaves  *)
(* the "with" block.  probe.lock is 0 when the lock is free, else the      *)
(* thread that acquired it.                                                *)
(***************************************************************************)
MaxThreads == 2

Threads == 1..MaxThreads

\* the calls a thread makes: update(value), increment(amount), complete()
Calls ==
    {[op |-> "update", arg |-> v] : v \in {0, 40, 150}}
    \cup {[op |-> "increment", arg |-> a] : a \in {1, 5}}
    \cup {[op |-> "complete", arg |-> 0]}

\* the analyzer takes no part in these calls
analyzer ==
    <<enumerable, pf_files, pc, idx, prefetch_files, execution_timeline, programs,
      compressed_count, decompression_failed, mam_calls>>

\* a tracker without callback that start() has set running
InitTracker ==
    /\ tracker = TrackerStart(TrackerIdle, "none")
    /\ probe = [lock |-> 0,
                threads |-> [t \in Threads |-> [pc |-> "idle", stack |-> <<>>]]]
    /\ pc = "start"
    /\ enumerable = TRUE
    /\ pf_files = <<>>
    /\ FreshAnalyzer

Top(t) == probe.threads[t].stack[Len(probe.threads[t].stack)]

\* a thread calls update(), increment() or complete() and reaches
\* "with self._lock" (lines 113, 146, 171)
ThreadCall(t) ==
    /\ probe.threads[t].pc = "idle"
    /\ \E call \in Calls :
           probe' = [probe EXCEPT !.threads[t] = [pc |-> "acquire", stack |-> <<call>>]]
    /\ UNCHANGED tracker
    /\ UNCHANGED analyzer

\* self._lock.acquire(): only a free lock is acquired
ThreadAcquire(t) ==
    /\ probe.threads[t].pc = "acquire"
    /\ probe.lock = 0
    /\ probe' = [probe EXCEPT !.lock = t, !.threads[t].pc = "body"]
    /\ UNCHANGED tracker
    /\ UNCHANGED analyzer

\* the body of update() (lines 114-138)
ThreadUpdate(t) ==
    /\ probe.threads[t].pc = "body"
    /\ Top(t).op = "update"
    /\ tracker' = TrackerUpdate(tracker, Top(t).arg, "none")
    /\ probe' = [probe EXCEPT !.threads[t].pc = "exit"]
    /\ UNCHANGED analyzer

\* the body of complete() (lines 172-180)
ThreadComplete(t) ==
    /\ probe.threads[t].pc = "body"
    /\ Top(t).op = "complete"
    /\ tracker' = TrackerComplete(tracker, "none")
    /\ probe' = [probe EXCEPT !.threads[t].pc = "exit"]
    /\ UNCHANGED analyzer

\* the body of increment() (lines 147-148): under the lock it computes
\* new_value and calls self.update(new_value, message), which starts with
\* "with self._lock"
ThreadIncrement(t) ==
    /\ probe.threads[t].pc = "body"
    /\ Top(t).op = "increment"
    /\ probe' = [probe EXCEPT
                    !.threads[t] =
                        [pc |-> "acquire",
                         stack |-> Append(probe.threads[t].stack,
                                          [op |-> "update",
                                           arg |-> tracker.current_value + Top(t).arg])]]
    /\ UNCHANGED tracker
    /\ UNCHANGED analyzer

\* the end of a "with self._lock" block: the lock is released and the call
\* returns, to the thread or into the call that made it
ThreadExit(t) ==
    /\ probe.threads[t].pc = "exit"
    /\ probe' = [probe EXCEPT
                    !.lock = 0,
                    !.threads[t] =
                        [pc |-> IF Len(probe.threads[t].stack) = 1 THEN "idle" ELSE "exit",
                         stack |-> SubSeq(probe.threads[t].stack, 1,
                                          Len(probe.threads[t].stack) - 1)]]
    /\ UNCHANGED tracker
    /\ UNCHANGED analyzer

NextTracker ==
    \E t \in Threads :
        \/ ThreadCall(t)
        \/ ThreadAcquire(t)
        \/ ThreadUpdate(t)
        \/ ThreadComplete(t)
        \/ ThreadIncrement(t)
        \/ ThreadExit(t)

SpecTracker == InitTracker /\ [][NextTracker]_vars

\* C30: no call is left blocked forever on the tracker's lock: the thread
\* that holds the lock is never itself waiting to acquire it, so every
\* thread that waits for the lock waits for a thread that will release it
\* and increment() goes on to return
C30_NoCallBlocked ==
    \A t \in Threads : ~(probe.lock = t /\ probe.threads[t].pc = "acquire")

====
